---- MODULE Spec2Model ----
(***************************************************************************)
(* Model of benchctl's workflow engine: RunWorkflow, executeStages and the *)
(* backgroundManager (internal/runner, internal/background.go).            *)
(*                                                                         *)
(* One behaviour is one invocation of RunWorkflow on one configuration.    *)
(* Every blocking call on an execution client (open, RunCommand, health    *)
(* check, Scp) is one step whose outcome is chosen by the environment.     *)
(* A host is modelled in its most general form (a remote host): opening a  *)
(* client and every transport call may fail; a local host shows a subset   *)
(* of these outcomes.                                                      *)
(***************************************************************************)
EXTENDS Integers, Sequences, FiniteSets, TLC

\* Bounds of the explored configurations.
MaxStages == 2
MaxHosts == 2
MaxOutputs == 1
MaxPlots == 1
MaxMembers == 2
MaxAdds == 4
MaxRuns == 6
MaxChunks == 2
MaxEntries == 2
MaxRetries == 2
MaxRawStages == 1
MaxValueLen == 3

VARIABLES
    cfg,            \* the validated configuration handed to RunWorkflow
    ctxDone,        \* the workflow context is cancelled or past its deadline
    pc,             \* position of RunWorkflow / executeStages / StopAll
    i,              \* executeStages: index of the current stage (1-based)
    hostIndex,      \* executeStages: index in the stage's host list (1-based)
    clients,        \* number of execution clients currently open
    inFlight,       \* foreground commands issued and not yet returned
    ev,             \* what executeStages has done so far, per (stage, host)
    firstError,     \* the hard error executeStages returned, if any
    backgroundMgr,  \* backgroundManager.stages
    proc,           \* number of launched process groups still alive
    ri,             \* StopAll: index of the record being stopped
    combinedErr,    \* StopAll: number of errors joined into combinedErr
    sig,            \* terminatePID: signals sent to the current record, its exit
    sv,             \* what StopAll has done so far, per record
    stageErr,       \* RunWorkflow: stageErr ("unset" until executeStages returns)
    stopErr,        \* RunWorkflow: stopErr  ("unset" until StopAll returns)
    runDirExists,   \* the run directory was created
    plotsRendered,  \* number of plots rendered without error
    metadataWrites, \* number of times metadata.json was written
    trace,          \* phases of RunWorkflow in the order they finished
    leader,         \* per background record: its PID leads a process group
    custom,         \* RunMetadata.Custom
    stdout,         \* result.Output of the command of the host iteration
    fstages,        \* file naming: the stages whose outputs are collected
    cursor,         \* file naming: (stage, host, output) being collected
    runDirFiles,    \* file naming: path in the run directory -> copies made
    dataSource,     \* file naming: plot source and dataSourcePath
    existing,       \* run id: numbers i for which <output_dir>/<i> exists
    runNum,         \* run id: generateRunID's counter
    runID,          \* run id: the id returned (0 until then)
    statErr,        \* run id: os.Stat of a candidate fails, not with not-exist
    invocation,     \* run id race: per invocation, its position, counter and run id
    writable,       \* run id race: directories can be created under the output root
    req,            \* RunCommand: the CommandRequest and the client it is given to
    rc,             \* RunCommand: its position
    alive,          \* RunCommand: processes of the command that are alive
    holders,        \* RunCommand: processes holding the write end of the output streams
    emitted,        \* RunCommand: chunks the command has written
    received,       \* RunCommand: chunks written to each live sink
    captured,       \* RunCommand: chunks written to the capture buffer
    result,         \* RunCommand: the CommandResult and error returned
    cancelled,      \* RunCommand: ctx is done
    pipes,          \* RunCommand: per output pipe, its unread chunks and its copy task
    entries,        \* environment: the --environment flag values
    envVars,        \* environment: parseEnvironment's map ("unset" before)
    exports,        \* environment: the assignments of buildEnvPrefix
    osEnv,          \* environment: config path and executable path known
    hc,             \* health check: stage.HealthCheck
    attempts,       \* health check: calls of the predicate CallWithRetry made
    hcErr,          \* health check: the error of the iteration ("nil" if none)
    hcCtx,          \* health check: ctx is done
    iter,           \* health check: what the host iteration has done so far
    errs            \* validator: the errors validateConfig has collected

vars == <<cfg, ctxDone, pc, i, hostIndex, clients, inFlight, ev, firstError,
          backgroundMgr, proc, ri, combinedErr, sig, sv, stageErr, stopErr,
          runDirExists, plotsRendered, metadataWrites, trace, leader, custom,
          stdout, fstages, cursor, runDirFiles, dataSource, existing, runNum,
          runID, statErr, invocation, writable, req, rc, alive, holders, emitted,
          received, captured, result, cancelled, pipes, entries, envVars,
          exports, osEnv, hc, attempts, hcErr, hcCtx, iter, errs>>

\* config.Stage, reduced to the fields the executor branches on.  Hosts is the
\* length of resolveStageHosts(stage): one host, or a fan-out over MaxHosts
\* hosts.  Outputs is the length of stage.Outputs.  The executor never reads
\* the health check of a background stage, so those stages carry none; it
\* reads nothing but the Skip flag of a skipped stage, so the skipped stage
\* explored is the one that would have the most to launch.  Of the remaining
\* combinations the ones explored are: a background stage on one host without
\* outputs or fanned out with outputs, a foreground stage without health
\* check in every combination of hosts and outputs, and a foreground stage
\* with health check fanned out with outputs.  append_metadata is explored on
\* the foreground stage that has a health check and outputs behind it
\* (validateConfig rejects it on a background stage).
Stage == {s \in [Skip : BOOLEAN, Background : BOOLEAN, Hosts : {1, MaxHosts},
                 HealthCheck : BOOLEAN, Outputs : {0, MaxOutputs},
                 AppendMetadata : BOOLEAN] :
            /\ s.AppendMetadata = s.HealthCheck
            /\ s.Background => /\ ~s.HealthCheck
                               /\ (s.Hosts = MaxHosts) = (s.Outputs = MaxOutputs)
            /\ s.HealthCheck => /\ s.Hosts = MaxHosts
                                /\ s.Outputs = MaxOutputs
            /\ s.Skip => /\ s.Hosts = MaxHosts
                         /\ s.Outputs = MaxOutputs
                         /\ s.Background}

\* config.Config: the stage list and the number of plots.  validateConfig
\* accepts a plot only when its source names an output of some stage.
Config == {c \in [Stages : UNION {[1..n -> Stage] : n \in 0..MaxStages},
                  Plots : 0..MaxPlots] :
             c.Plots > 0 => \E n \in 1..Len(c.Stages) : c.Stages[n].Outputs > 0}

NoError == [stage |-> 0, host |-> 0, kind |-> "none"]

NoEvents == [opened |-> {}, issued |-> {}, exited0 |-> {}, hcIssued |-> {},
             hcPassed |-> {}, collecting |-> {}, copied |-> {},
             completed |-> {}, launched |-> {}]

NoStops == [attempted |-> {}, failed |-> 0]

\* term, kill: the signal reached the process group; sent: the kill commands
\* issued, in order; waited: the grace period has elapsed; found: what
\* processAlive reported after it; elapsed: how long waitForExit polled
NoSignals == [term |-> FALSE, kill |-> FALSE, warned |-> FALSE,
              exited |-> FALSE, sent |-> <<>>, waited |-> FALSE,
              found |-> "none", elapsed |-> 0]

\* time in units of backgroundCheckInterval (200 ms)
backgroundCheckInterval == 1
BackgroundTerminationGrace == 10

\* encoding/json as appendStageMetadata uses it.  A captured stdout is a text;
\* what the decoder makes of it depends on its kind: an object (its members in
\* text order), the literal null, an array, or no JSON at all.  A value is a
\* number, a string or something else, with the text that stands for it: the
\* source text of a number, the characters of a string, the compact encoding
\* of anything else.
JSONValue == {[type |-> "number", text |-> "12.30"],
              [type |-> "number", text |-> "1e3"],
              [type |-> "string", text |-> "ok"],
              [type |-> "other", text |-> "true"]}

Keys == {"p50_ms", "notes"}

Garbage == [kind |-> "garbage", members |-> <<>>]

Stdouts ==
    {Garbage, [kind |-> "null", members |-> <<>>],
     [kind |-> "array", members |-> <<>>]}
      \cup {[kind |-> "object", members |-> m] :
               m \in UNION {[1..n -> Keys \X JSONValue] : n \in 0..MaxMembers}}

\* the stdouts the stages of a workflow print
StageStdouts ==
    {Garbage,
     [kind |-> "object",
      members |-> <<<<"p50_ms", [type |-> "number", text |-> "12.30"]>>>>]}

\* the custom metadata given at invocation (--metadata k=v)
Seed == [k \in {"p50_ms", "owner"} |-> "seeded"]

RECURSIVE DecodeMembers(_)
\* the map a JSON object decodes to: a later member replaces an earlier one
\* of the same key
DecodeMembers(m) ==
    IF m = <<>> THEN <<>>
    ELSE LET front == DecodeMembers(SubSeq(m, 1, Len(m) - 1))
             last == m[Len(m)]
         IN [k \in (DOMAIN front) \cup {last[1]} |->
                IF k = last[1] THEN last[2] ELSE front[k]]

\* dec.UseNumber(); dec.Decode(&out) into a map[string]any
Decode(output) ==
    CASE output.kind = "object" ->
             [err |-> FALSE, out |-> DecodeMembers(output.members)]
      [] output.kind = "null" -> [err |-> FALSE, out |-> <<>>]
      [] OTHER -> [err |-> TRUE, out |-> <<>>]

\* strconv's shortest decimal form of the float64 a number text denotes
FormatFloat(text) ==
    CASE text = "12.30" -> "12.3"
      [] text = "1e3" -> "1000"
      [] OTHER -> text

StringifyAsFloat(v) ==
    IF v.type = "number" THEN FormatFloat(v.text) ELSE v.text

\* the switch of appendStageMetadata: json.Number -> t.String(), string -> t,
\* default -> json.Marshal(t)
Stringify(v) ==
    CASE v.type = "number" -> v.text
      [] v.type = "string" -> v.text
      [] OTHER -> v.text

Merge(m, out) ==
    [k \in (DOMAIN m) \cup (DOMAIN out) |->
        IF k \in DOMAIN out THEN Stringify(out[k]) ELSE m[k]]

AppendStageMetadataFatal(m, output) ==
    [err |-> Decode(output).err,
     custom |-> IF Decode(output).err THEN <<>> ELSE Merge(m, Decode(output).out)]

\* appendStageMetadata: the error it returns and metadata.Custom afterwards
AppendStageMetadata(m, output) ==
    IF Decode(output).err
    THEN [err |-> TRUE, custom |-> m]
    ELSE [err |-> FALSE, custom |-> Merge(m, Decode(output).out)]

\* two invocations of RunWorkflow on one output root
Invocations == {1, 2}

\* no invocation has started
RaceRest ==
    /\ invocation = [p \in Invocations |-> [pc |-> "runID", runNum |-> 1, runID |-> 0]]
    /\ writable = TRUE

\* io.Writer values a request can carry as live sinks; "nil" is the nil
\* interface
Writers == {"w1", "w2"}

\* chunks written so far, per output stream of the command
NoChunks == [stdout |-> 0, stderr |-> 0]

\* the output streams of a command
Streams == {"stdout", "stderr"}

\* no pipe has been made and no copy task started
NoPipes == [p \in Streams |-> [unread |-> 0, closed |-> FALSE, task |-> "none"]]

\* no CommandResult yet
NoResult == [Output |-> 0, ExitCode |-> 0, err |-> "unset"]

\* no RunCommand has been called
ExecRest ==
    /\ req = [remote |-> FALSE, Command |-> TRUE, UsePTY |-> FALSE,
              DisableCapture |-> FALSE, Stdout |-> "nil", Stderr |-> "nil",
              Stdin |-> FALSE]
    /\ rc = "idle"
    /\ alive = {}
    /\ holders = {}
    /\ emitted = NoChunks
    /\ received = [w \in Writers |-> 0]
    /\ captured = 0
    /\ result = NoResult
    /\ cancelled = FALSE
    /\ pipes = NoPipes

\* no --environment flag, no prefix built
PrefixRest ==
    /\ entries = <<>>
    /\ envVars = "unset"
    /\ exports = <<>>
    /\ osEnv = [configPath |-> FALSE, exePath |-> FALSE]

\* a host iteration that has not begun; last is the result of the latest call
\* of the health predicate
NoIteration ==
    [commandRan |-> FALSE, checked |-> FALSE, collected |-> FALSE,
     last |-> "none"]

\* no health check is running
HealthRest ==
    /\ hc = [Type |-> "port", Timeout |-> "5s", Retries |-> 0]
    /\ attempts = 0
    /\ hcErr = "nil"
    /\ hcCtx = FALSE
    /\ iter = NoIteration

\* outside the validator's checks no error has been collected
ValidateRest == errs = {}

\* the units modelled on their own, at rest
UnitInit ==
    /\ RaceRest
    /\ ExecRest
    /\ PrefixRest
    /\ HealthRest
    /\ ValidateRest

\* the variables of the other units, at rest while a workflow runs
SideInit ==
    /\ UnitInit
    /\ fstages = <<>>
    /\ cursor = [s |-> 1, h |-> 1, o |-> 1]
    /\ runDirFiles = <<>>
    /\ dataSource = [source |-> <<>>, path |-> <<>>]
    /\ existing = {}
    /\ statErr = FALSE
    /\ runNum = 1
    /\ runID = 0

WorkflowInit ==
    /\ ctxDone = FALSE
    /\ stdout = Garbage
    /\ leader = <<>>
    /\ i = 1
    /\ hostIndex = 1
    /\ clients = 0
    /\ inFlight = {}
    /\ ev = NoEvents
    /\ firstError = NoError
    /\ backgroundMgr = <<>>
    /\ proc = 0
    /\ ri = 1
    /\ combinedErr = 0
    /\ sig = NoSignals
    /\ sv = NoStops
    /\ stageErr = "unset"
    /\ stopErr = "unset"
    /\ runDirExists = FALSE
    /\ plotsRendered = 0
    /\ metadataWrites = 0
    /\ trace = <<>>

Init ==
    /\ cfg \in Config
    /\ pc = "start"
    /\ custom = Seed
    /\ WorkflowInit
    /\ SideInit

stage == cfg.Stages[i]
here == <<i, hostIndex>>

runVars == <<runDirExists, plotsRendered, metadataWrites>>
metaVars == <<custom, stdout>>
fileVars == <<fstages, cursor, runDirFiles, dataSource>>
idVars == <<existing, runNum, runID, statErr>>
raceVars == <<invocation, writable>>
execVars == <<req, rc, alive, holders, emitted, received, captured, result,
             cancelled, pipes>>
prefixVars == <<entries, envVars, exports, osEnv>>
healthVars == <<hc, attempts, hcErr, hcCtx, iter>>
unitVars == <<raceVars, execVars, prefixVars, healthVars, errs>>
sideVars == <<fileVars, idVars, unitVars>>
restVars == <<leader, metaVars, sideVars>>
stopVars == <<backgroundMgr, proc, ri, combinedErr, sig, sv, stopErr>>
bgVars == <<backgroundMgr, proc, leader>>

----------------------------------------------------------------------------
\* RunWorkflow, up to the call of executeStages

\* The workflow context reaches its deadline or is cancelled (the --timeout
\* context of the run command); it never becomes live again.
CtxExpires ==
    /\ pc \notin {"done", "fatal"}
    /\ ~ctxDone
    /\ ctxDone' = TRUE
    /\ UNCHANGED <<cfg, pc, i, hostIndex, clients, inFlight, ev, firstError,
                   stageErr, trace>>
    /\ UNCHANGED stopVars
    /\ UNCHANGED runVars
    /\ UNCHANGED restVars

\* generateRunID, MkdirAll; a failing MkdirAll is fatal before any stage.
StartRun ==
    /\ pc = "start"
    /\ \E ok \in BOOLEAN :
         IF ok
         THEN /\ runDirExists' = TRUE
              /\ pc' = "stageLoop"
              /\ trace' = Append(trace, "mkdir")
         ELSE /\ pc' = "fatal"
              /\ UNCHANGED <<runDirExists, trace>>
    /\ UNCHANGED <<cfg, ctxDone, i, hostIndex, clients, inFlight, ev,
                   firstError, stageErr, plotsRendered, metadataWrites>>
    /\ UNCHANGED stopVars
    /\ UNCHANGED restVars

----------------------------------------------------------------------------
\* executeStages

ReturnErrFatal(kind) ==
    /\ firstError' = [stage |-> i, host |-> hostIndex, kind |-> kind]
    /\ stageErr' = "err"
    /\ trace' = Append(trace, "executeStages")
    /\ pc' = "fatal"
    /\ UNCHANGED <<i, hostIndex>>

\* `return err` out of executeStages: the next statement of RunWorkflow is the
\* call of StopAll.
ReturnErr(kind) ==
    /\ firstError' = [stage |-> i, host |-> hostIndex, kind |-> kind]
    /\ stageErr' = "err"
    /\ trace' = Append(trace, "executeStages")
    /\ pc' = "stopAll"
    /\ UNCHANGED <<i, hostIndex>>

NextIterationSkipHosts ==
    /\ i' = i + 1
    /\ hostIndex' = 1
    /\ pc' = "stageLoop"

\* end of one iteration of the host loop: next host, or next stage
NextIteration ==
    IF hostIndex < stage.Hosts
    THEN /\ hostIndex' = hostIndex + 1
         /\ pc' = "openClient"
         /\ i' = i
    ELSE /\ i' = i + 1
         /\ hostIndex' = 1
         /\ pc' = "stageLoop"

\* all stages done: return nil
ReturnNil ==
    /\ pc = "stageLoop"
    /\ i > Len(cfg.Stages)
    /\ stageErr' = "nil"
    /\ trace' = Append(trace, "executeStages")
    /\ pc' = "stopAll"
    /\ UNCHANGED <<cfg, ctxDone, i, hostIndex, clients, inFlight, ev, firstError>>
    /\ UNCHANGED stopVars
    /\ UNCHANGED runVars
    /\ UNCHANGED restVars

\* if stage.Skip { continue }
SkipStage ==
    /\ pc = "stageLoop"
    /\ i <= Len(cfg.Stages)
    /\ stage.Skip
    /\ i' = i + 1
    /\ UNCHANGED <<cfg, ctxDone, pc, hostIndex, clients, inFlight, ev,
                   firstError, stageErr, trace>>
    /\ UNCHANGED stopVars
    /\ UNCHANGED runVars
    /\ UNCHANGED restVars

EnterStageAnyway ==
    /\ pc = "stageLoop"
    /\ i <= Len(cfg.Stages)
    /\ hostIndex' = 1
    /\ pc' = "openClient"
    /\ UNCHANGED <<cfg, ctxDone, i, clients, inFlight, ev, firstError,
                   stageErr, trace>>
    /\ UNCHANGED stopVars
    /\ UNCHANGED runVars
    /\ UNCHANGED restVars

\* a stage that is not skipped: resolve its hosts and start the host loop
EnterStage ==
    /\ pc = "stageLoop"
    /\ i <= Len(cfg.Stages)
    /\ ~stage.Skip
    /\ hostIndex' = 1
    /\ pc' = "openClient"
    /\ UNCHANGED <<cfg, ctxDone, i, clients, inFlight, ev, firstError,
                   stageErr, trace>>
    /\ UNCHANGED stopVars
    /\ UNCHANGED runVars
    /\ UNCHANGED restVars

\* client, err := openExecutionClient(host)
OpenClient ==
    /\ pc = "openClient"
    /\ ev' = [ev EXCEPT !.opened = @ \cup {here}]
    /\ \E ok \in BOOLEAN :
         IF ok
         THEN /\ clients' = clients + 1
              /\ pc' = "prepare"
              /\ UNCHANGED <<i, hostIndex, firstError, stageErr, trace>>
         ELSE /\ ReturnErr("open")
              /\ UNCHANGED clients
    /\ UNCHANGED <<cfg, ctxDone, inFlight>>
    /\ UNCHANGED stopVars
    /\ UNCHANGED runVars
    /\ UNCHANGED restVars

\* prepareStageCommand (uploads a script to a remote host), wrapWithShell
PrepareCommand ==
    /\ pc = "prepare"
    /\ \E ok \in BOOLEAN :
         IF ok
         THEN /\ pc' = IF stage.Background THEN "launch" ELSE "run"
              /\ UNCHANGED <<i, hostIndex, firstError, stageErr, trace, clients>>
         ELSE /\ clients' = clients - 1
              /\ ReturnErr("prepare")
    /\ UNCHANGED <<cfg, ctxDone, inFlight, ev>>
    /\ UNCHANGED stopVars
    /\ UNCHANGED runVars
    /\ UNCHANGED restVars

\* strings.TrimSpace
RECURSIVE TrimSpace(_)
TrimSpace(s) ==
    IF s = <<>> THEN s
    ELSE IF Head(s) = " " THEN TrimSpace(Tail(s))
    ELSE IF s[Len(s)] = " " THEN TrimSpace(SubSeq(s, 1, Len(s) - 1))
    ELSE s

\* the n-th PID a shell reports, as text
PID(n) == <<<<"1", "2", "3", "4", "5", "6", "7", "8", "9">>[n]>>

\* what RunCommand may return for `... & echo $!` when PID n is the one
\* started: an error, or an output that is empty, blank, or holds the PID
LaunchResults(n) ==
    [err : BOOLEAN, Output : {<<>>, <<" ">>, PID(n) \o <<" ">>}]

parsePIDUntrimmed(output) == output

\* parsePID: the first field of the output, "" when there is none
parsePID(output) ==
    LET trimmed == TrimSpace(output)
    IN  IF trimmed = <<>> THEN <<>>
        ELSE IF \E n \in 1..Len(trimmed) : trimmed[n] = " "
             THEN SubSeq(trimmed, 1,
                         (CHOOSE n \in 1..Len(trimmed) :
                            /\ trimmed[n] = " "
                            /\ \A m \in 1..(n - 1) : trimmed[m] # " ") - 1)
             ELSE trimmed

\* backgroundManager.Add
Add(stages, record) == Append(stages, record)

\* background branch: startBackgroundStage (an error of RunCommand or an
\* output without a PID is an error), Close, backgroundMgr.Add, continue.
\* The command is started under setsid, so the PID echoed leads a new
\* process group.
LaunchBackground ==
    /\ pc = "launch"
    /\ clients' = clients - 1
    /\ \E res \in (IF ctxDone THEN {[err |-> TRUE, Output |-> <<>>]}
                   ELSE LaunchResults(Len(backgroundMgr) + 1)) :
         IF ~res.err /\ parsePID(res.Output) # <<>>
         THEN /\ ev' = [ev EXCEPT !.issued = @ \cup {here},
                                  !.launched = @ \cup {here}]
              /\ backgroundMgr' = Add(backgroundMgr,
                     [stage |-> i, host |-> hostIndex,
                      pid |-> parsePID(res.Output)])
              /\ proc' = proc + 1
              /\ leader' = Append(leader, TRUE)
              /\ NextIteration
              /\ UNCHANGED <<firstError, stageErr, trace>>
         ELSE /\ ev' = [ev EXCEPT !.issued = @ \cup {here}]
              /\ ReturnErr("launch")
              /\ UNCHANGED bgVars
    /\ UNCHANGED <<cfg, ctxDone, inFlight, ri, combinedErr, sig, sv, stopErr>>
    /\ UNCHANGED runVars
    /\ UNCHANGED <<metaVars, sideVars>>

IssueCommandNoWait ==
    /\ pc = "run"
    /\ ev' = [ev EXCEPT !.issued = @ \cup {here}]
    /\ inFlight' = inFlight \cup {here}
    /\ NextIteration
    /\ UNCHANGED <<cfg, ctxDone, clients, firstError, stageErr, trace>>
    /\ UNCHANGED stopVars
    /\ UNCHANGED runVars
    /\ UNCHANGED restVars

\* foreground branch: client.RunCommand is called
IssueCommand ==
    /\ pc = "run"
    /\ ev' = [ev EXCEPT !.issued = @ \cup {here}]
    /\ inFlight' = inFlight \cup {here}
    /\ pc' = "running"
    /\ UNCHANGED <<cfg, ctxDone, i, hostIndex, clients, firstError, stageErr,
                   trace>>
    /\ UNCHANGED stopVars
    /\ UNCHANGED runVars
    /\ UNCHANGED restVars

AfterCommandCollectFirst(s) ==
    IF s.Outputs > 0 THEN "collect"
    ELSE IF s.HealthCheck THEN "health" ELSE "close"

\* where a host iteration goes after its command exited with code 0
AfterCommand(s) ==
    IF s.HealthCheck THEN "health"
    ELSE IF s.Outputs > 0 THEN "collect" ELSE "close"

\* where a host iteration goes after its health check passed
AfterHealth(s) ==
    IF s.Outputs > 0 THEN "collect" ELSE "close"

AppendMetadataAnyHost ==
    IF stage.AppendMetadata
    THEN \E output \in StageStdouts :
           /\ stdout' = output
           /\ custom' = AppendStageMetadata(custom, output).custom
    ELSE UNCHANGED metaVars

\* if stage.AppendMetadata { if hostIndex == 0 { appendStageMetadata(...) } }:
\* an error of appendStageMetadata is logged as a warning and nothing else
AppendMetadata ==
    IF stage.AppendMetadata
    THEN \E output \in StageStdouts :
           /\ stdout' = output
           /\ custom' = IF hostIndex = 1
                        THEN AppendStageMetadata(custom, output).custom
                        ELSE custom
    ELSE UNCHANGED metaVars

CommandReturnsContinue ==
    /\ pc = "running"
    /\ inFlight' = inFlight \ {here}
    /\ \E ok \in (IF ctxDone THEN {FALSE} ELSE BOOLEAN) :
         IF ok
         THEN /\ ev' = [ev EXCEPT !.exited0 = @ \cup {here}]
              /\ AppendMetadata
              /\ pc' = AfterCommand(stage)
              /\ UNCHANGED <<i, hostIndex, firstError, stageErr, trace, clients>>
         ELSE /\ clients' = clients - 1
              /\ firstError' = IF firstError = NoError
                               THEN [stage |-> i, host |-> hostIndex,
                                     kind |-> "command"]
                               ELSE firstError
              /\ NextIteration
              /\ UNCHANGED <<ev, stageErr, trace, metaVars>>
    /\ UNCHANGED <<cfg, ctxDone>>
    /\ UNCHANGED stopVars
    /\ UNCHANGED runVars
    /\ UNCHANGED <<leader, sideVars>>

\* client.RunCommand returns: a transport error or a non-zero exit code is a
\* hard error; exit code 0 lets the iteration go on.
CommandReturns ==
    /\ pc = "running"
    /\ inFlight' = inFlight \ {here}
    /\ \E ok \in (IF ctxDone THEN {FALSE} ELSE BOOLEAN) :
         IF ok
         THEN /\ ev' = [ev EXCEPT !.exited0 = @ \cup {here}]
              /\ AppendMetadata
              /\ pc' = AfterCommand(stage)
              /\ UNCHANGED <<i, hostIndex, firstError, stageErr, trace, clients>>
         ELSE /\ clients' = clients - 1
              /\ ReturnErr("command")
              /\ UNCHANGED <<ev, metaVars>>
    /\ UNCHANGED <<cfg, ctxDone>>
    /\ UNCHANGED stopVars
    /\ UNCHANGED runVars
    /\ UNCHANGED <<leader, sideVars>>

\* result, the value client.RunCommand returned, is a local of the host
\* iteration: it is gone once the iteration is left
ResultScope ==
    /\ stdout' = IF pc' \in {"health", "collect", "close"} THEN stdout ELSE Garbage
    /\ UNCHANGED <<leader, custom, sideVars>>

\* runHealthCheck
HealthCheck ==
    /\ pc = "health"
    /\ \E ok \in (IF ctxDone THEN {FALSE} ELSE BOOLEAN) :
         IF ok
         THEN /\ ev' = [ev EXCEPT !.hcIssued = @ \cup {here},
                                  !.hcPassed = @ \cup {here}]
              /\ pc' = AfterHealth(stage)
              /\ UNCHANGED <<i, hostIndex, firstError, stageErr, trace, clients>>
         ELSE /\ ev' = [ev EXCEPT !.hcIssued = @ \cup {here}]
              /\ clients' = clients - 1
              /\ ReturnErr("health")
    /\ UNCHANGED <<cfg, ctxDone, inFlight>>
    /\ UNCHANGED stopVars
    /\ UNCHANGED runVars
    /\ ResultScope

\* collectStageOutputs: copies the outputs in list order and stops at the
\* first Scp that fails; k is the number of outputs copied.
CollectOutputs ==
    /\ pc = "collect"
    /\ \E k \in (IF ctxDone THEN {0} ELSE 0..stage.Outputs) :
         /\ ev' = [ev EXCEPT !.collecting = @ \cup {here},
                             !.copied = @ \cup {<<i, hostIndex, o>> : o \in 1..k}]
         /\ IF k = stage.Outputs
            THEN /\ pc' = "close"
                 /\ UNCHANGED <<i, hostIndex, firstError, stageErr, trace,
                                clients>>
            ELSE /\ clients' = clients - 1
                 /\ ReturnErr("collect")
    /\ UNCHANGED <<cfg, ctxDone, inFlight>>
    /\ UNCHANGED stopVars
    /\ UNCHANGED runVars
    /\ ResultScope

CloseClientLeaks ==
    /\ pc = "close"
    /\ ev' = [ev EXCEPT !.completed = @ \cup {here}]
    /\ NextIteration
    /\ UNCHANGED <<cfg, ctxDone, inFlight, firstError, stageErr, trace, clients>>
    /\ UNCHANGED stopVars
    /\ UNCHANGED runVars
    /\ ResultScope

\* _ = client.Close() at the end of a foreground iteration
CloseClient ==
    /\ pc = "close"
    /\ clients' = clients - 1
    /\ ev' = [ev EXCEPT !.completed = @ \cup {here}]
    /\ NextIteration
    /\ UNCHANGED <<cfg, ctxDone, inFlight, firstError, stageErr, trace>>
    /\ UNCHANGED stopVars
    /\ UNCHANGED runVars
    /\ ResultScope

ExecuteStages ==
    \/ ReturnNil
    \/ SkipStage
    \/ EnterStage
    \/ OpenClient
    \/ PrepareCommand
    \/ LaunchBackground
    \/ IssueCommand
    \/ CommandReturns
    \/ HealthCheck
    \/ CollectOutputs
    \/ CloseClient

----------------------------------------------------------------------------
\* backgroundManager.StopAll, stopStage, terminatePID

record == backgroundMgr[ri]

StopStageReturnsFirstError(failed, closing) ==
    /\ combinedErr' = IF failed THEN 1 ELSE combinedErr
    /\ clients' = IF closing THEN clients - 1 ELSE clients
    /\ sig' = NoSignals
    /\ ri' = IF failed THEN Len(backgroundMgr) + 1 ELSE ri + 1
    /\ pc' = "stopAll"

\* stopStage returns (its deferred client.Close() has run when closing is set);
\* StopAll joins a non-nil error into combinedErr and moves to the next record
StopStageReturns(failed, closing) ==
    /\ combinedErr' = IF failed THEN combinedErr + 1 ELSE combinedErr
    /\ clients' = IF closing THEN clients - 1 ELSE clients
    /\ sig' = NoSignals
    /\ ri' = ri + 1
    /\ pc' = "stopAll"

\* StopAll, loop head, and stopStage up to openExecutionClient(record.host)
StopStageOpen ==
    /\ pc = "stopAll"
    /\ ri <= Len(backgroundMgr)
    /\ \E ok \in BOOLEAN :
         IF ok
         THEN /\ sv' = [sv EXCEPT !.attempted = @ \cup {ri}]
              /\ clients' = clients + 1
              /\ pc' = "term"
              /\ UNCHANGED <<ri, combinedErr, sig>>
         ELSE /\ sv' = [sv EXCEPT !.attempted = @ \cup {ri},
                                  !.failed = @ + 1]
              /\ StopStageReturns(TRUE, FALSE)
    /\ UNCHANGED <<cfg, ctxDone, i, hostIndex, inFlight, ev, firstError,
                   backgroundMgr, proc, stageErr, stopErr, trace>>
    /\ UNCHANGED runVars
    /\ UNCHANGED restVars

\* openExecutionClient gives the local client for a host without IP: of the
\* stages explored, the one that names no hosts list runs on "local" and the
\* fanned-out one on remote hosts
LocalClient(r) == cfg.Stages[backgroundMgr[r].stage].Hosts = 1

\* RunCommand of a kill command: on the local client exec.CommandContext
\* does not start a command whose context is done; on a remote host the
\* session may have started the command before ctx.Done() is selected
KillOutcomes(isLeader, local, done) ==
    IF ~isLeader \/ (local /\ done) THEN {FALSE} ELSE BOOLEAN

\* terminatePID: kill -TERM -pid; the result of RunCommand is ignored, so the
\* signal may or may not have reached the process group.  -pid names a group
\* only when the PID leads one; no signal is sent to the PID itself.
SendTerm ==
    /\ pc = "term"
    /\ \E delivered \in KillOutcomes(leader[ri], LocalClient(ri), ctxDone) :
         sig' = [sig EXCEPT !.term = delivered, !.sent = Append(@, "TERM")]
    /\ pc' = "grace"
    /\ UNCHANGED <<cfg, ctxDone, i, hostIndex, clients, inFlight, ev,
                   firstError, backgroundMgr, proc, ri, combinedErr, sv,
                   stageErr, stopErr, trace>>
    /\ UNCHANGED runVars
    /\ UNCHANGED restVars

\* terminatePID: select on time.After(BackgroundTerminationGrace) and
\* ctx.Done(); a process that received TERM may exit during the grace period.
GraceWait ==
    /\ pc = "grace"
    /\ IF ctxDone
       THEN /\ StopStageReturns(TRUE, TRUE)
            /\ sv' = [sv EXCEPT !.failed = @ + 1]
            /\ UNCHANGED proc
       ELSE /\ \E dies \in (IF sig.term THEN BOOLEAN ELSE {FALSE}) :
                 /\ proc' = IF dies THEN proc - 1 ELSE proc
                 /\ sig' = [sig EXCEPT !.exited = dies, !.waited = TRUE]
            /\ pc' = "probe"
            /\ UNCHANGED <<ri, combinedErr, clients, sv>>
    /\ UNCHANGED <<cfg, ctxDone, i, hostIndex, inFlight, ev, firstError,
                   backgroundMgr, stageErr, stopErr, trace>>
    /\ UNCHANGED runVars
    /\ UNCHANGED restVars

AfterProbeAlwaysKill(isAlive) == "kill"

\* terminatePID: if alive { kill -KILL ...; waitForExit }; return nil
AfterProbe(isAlive) == IF isAlive THEN "kill" ELSE "bgCollect"

\* terminatePID: processAlive after the grace period
ProbeAlive ==
    /\ pc = "probe"
    /\ \E ok \in (IF ctxDone THEN {FALSE} ELSE BOOLEAN) :
         IF ok
         THEN /\ pc' = AfterProbe(~sig.exited)
              /\ sig' = [sig EXCEPT !.found = IF sig.exited THEN "dead"
                                              ELSE "alive"]
              /\ UNCHANGED <<ri, combinedErr, clients, sv>>
         ELSE /\ sv' = [sv EXCEPT !.failed = @ + 1]
              /\ StopStageReturns(TRUE, TRUE)
    /\ UNCHANGED <<cfg, ctxDone, i, hostIndex, inFlight, ev, firstError,
                   backgroundMgr, proc, stageErr, stopErr, trace>>
    /\ UNCHANGED runVars
    /\ UNCHANGED restVars

\* the process outlives the deadline of waitForExit
Never == BackgroundTerminationGrace + 1

\* when a process that received KILL is taken to exit: at once, at the
\* deadline, or not within it
ExitTimes == {0, BackgroundTerminationGrace, Never}

RECURSIVE waitForExit(_, _, _)
\* waitForExit, from the time now since its deadline was set, for a process
\* that exits at diesAt: while the deadline is not reached, processAlive
\* (which fails under a context that is done), then a sleep of one interval
waitForExit(now, diesAt, done) ==
    IF now >= BackgroundTerminationGrace
    THEN [err |-> "still running after SIGKILL", elapsed |-> now]
    ELSE IF done THEN [err |-> "context", elapsed |-> now]
    ELSE IF diesAt <= now THEN [err |-> "nil", elapsed |-> now]
    ELSE waitForExit(now + backgroundCheckInterval, diesAt, done)

\* terminatePID: kill -KILL -pid, then waitForExit; when the process is not
\* seen dead within the grace period a warning is logged and nil returned.
KillAndWait ==
    /\ pc = "kill"
    /\ \E delivered \in KillOutcomes(leader[ri], LocalClient(ri), ctxDone) :
         /\ \E diesAt \in (IF delivered /\ ~sig.exited THEN ExitTimes
                            ELSE {Never}) :
              LET dies == diesAt <= BackgroundTerminationGrace
                  wait == waitForExit(0, diesAt, ctxDone)
              IN /\ proc' = IF dies THEN proc - 1 ELSE proc
                 /\ sig' = [sig EXCEPT !.kill = delivered,
                                       !.warned = wait.err # "nil",
                                       !.exited = sig.exited \/ dies,
                                       !.sent = Append(@, "KILL"),
                                       !.elapsed = wait.elapsed]
    /\ pc' = "bgCollect"
    /\ UNCHANGED <<cfg, ctxDone, i, hostIndex, clients, inFlight, ev,
                   firstError, backgroundMgr, ri, combinedErr, sv, stageErr,
                   stopErr, trace>>
    /\ UNCHANGED runVars
    /\ UNCHANGED restVars

\* stopStage: best-effort collectStageOutputs of the background stage, then
\* the deferred client.Close().  A failing copy is only logged: the outcome
\* of the copies reaches no variable of the program.
BgCollect ==
    /\ pc = "bgCollect"
    /\ StopStageReturns(FALSE, TRUE)
    /\ UNCHANGED <<cfg, ctxDone, i, hostIndex, inFlight, ev, firstError,
                   backgroundMgr, proc, sv, stageErr, stopErr, trace>>
    /\ UNCHANGED runVars
    /\ UNCHANGED restVars

----------------------------------------------------------------------------
\* RunWorkflow, after StopAll

AfterStopAllIgnoringStopErr(stageE, stopE) ==
    IF stageE = "err" THEN "fatal" ELSE "plots"

\* if stageErr != nil { Fatalf }; if stopErr != nil { Fatalf }
AfterStopAll(stageE, stopE) ==
    IF stageE = "err" THEN "fatal"
    ELSE IF stopE = "err" THEN "fatal" ELSE "plots"

\* StopAll returns combinedErr to RunWorkflow
StopAllReturns ==
    /\ pc = "stopAll"
    /\ ri > Len(backgroundMgr)
    /\ stopErr' = IF combinedErr > 0 THEN "err" ELSE "nil"
    /\ trace' = Append(trace, "StopAll")
    /\ pc' = AfterStopAll(stageErr, stopErr')
    /\ UNCHANGED <<cfg, ctxDone, i, hostIndex, clients, inFlight, ev,
                   firstError, backgroundMgr, proc, ri, combinedErr, sig, sv,
                   stageErr>>
    /\ UNCHANGED runVars
    /\ UNCHANGED restVars

\* generatePlotsForRun: one plotter.GeneratePlot; a renderer error is fatal
RenderPlot ==
    /\ pc = "plots"
    /\ plotsRendered < cfg.Plots
    /\ \E ok \in BOOLEAN :
         IF ok
         THEN /\ plotsRendered' = plotsRendered + 1
              /\ trace' = Append(trace, "plot")
              /\ UNCHANGED pc
         ELSE /\ pc' = "fatal"
              /\ UNCHANGED <<plotsRendered, trace>>
    /\ UNCHANGED <<cfg, ctxDone, i, hostIndex, clients, inFlight, ev,
                   firstError, stageErr, runDirExists, metadataWrites>>
    /\ UNCHANGED stopVars
    /\ UNCHANGED restVars

PlotsReturnEarly ==
    /\ pc = "plots"
    /\ pc' = "save"
    /\ UNCHANGED <<cfg, ctxDone, i, hostIndex, clients, inFlight, ev,
                   firstError, stageErr, trace>>
    /\ UNCHANGED stopVars
    /\ UNCHANGED runVars
    /\ UNCHANGED restVars

\* generatePlotsForRun returns nil: no plots, or every plot rendered
PlotsReturn ==
    /\ pc = "plots"
    /\ plotsRendered = cfg.Plots
    /\ pc' = "save"
    /\ UNCHANGED <<cfg, ctxDone, i, hostIndex, clients, inFlight, ev,
                   firstError, stageErr, trace>>
    /\ UNCHANGED stopVars
    /\ UNCHANGED runVars
    /\ UNCHANGED restVars

\* metadata.EndTime = time.Now(); saveMetadata(metadata, runDir)
SaveMetadata ==
    /\ pc = "save"
    /\ \E ok \in BOOLEAN :
         IF ok
         THEN /\ metadataWrites' = metadataWrites + 1
              /\ trace' = trace \o <<"EndTime", "metadata.json">>
              /\ pc' = "done"
         ELSE /\ trace' = Append(trace, "EndTime")
              /\ pc' = "fatal"
              /\ UNCHANGED metadataWrites
    /\ UNCHANGED <<cfg, ctxDone, i, hostIndex, clients, inFlight, ev,
                   firstError, stageErr, runDirExists, plotsRendered>>
    /\ UNCHANGED stopVars
    /\ UNCHANGED restVars

StopAll ==
    \/ StopStageOpen
    \/ SendTerm
    \/ GraceWait
    \/ ProbeAlive
    \/ KillAndWait
    \/ BgCollect
    \/ StopAllReturns

Next ==
    \/ StartRun
    \/ ExecuteStages
    \/ StopAll
    \/ RenderPlot
    \/ PlotsReturn
    \/ SaveMetadata

Spec == Init /\ [][Next]_vars

\* the same program under a workflow context that can expire at any time
NextCtx == Next \/ CtxExpires

SpecCtx == Init /\ [][NextCtx]_vars

----------------------------------------------------------------------------
\* backgroundManager on its own: Add called with any record, any number of
\* times

\* a configuration with one background stage fanned out over MaxHosts hosts
BackgroundOnly ==
    [Stages |-> <<[Skip |-> FALSE, Background |-> TRUE, Hosts |-> MaxHosts,
                   HealthCheck |-> FALSE, Outputs |-> MaxOutputs,
                   AppendMetadata |-> FALSE]>>,
     Plots |-> 0]

\* backgroundStage values: PIDs captured on the hosts of the stage
BackgroundRecords ==
    [stage : {1}, host : 1..MaxHosts, pid : {PID(n) : n \in 1..MaxHosts}]

InitAdd ==
    /\ cfg = BackgroundOnly
    /\ pc = "add"
    /\ custom = Seed
    /\ WorkflowInit
    /\ SideInit

\* m.Add(record)
AddRecord ==
    /\ pc = "add"
    /\ Len(backgroundMgr) < MaxAdds
    /\ \E rec \in BackgroundRecords :
         backgroundMgr' = Add(backgroundMgr, rec)
    /\ UNCHANGED <<cfg, ctxDone, pc, i, hostIndex, clients, inFlight, ev,
                   firstError, proc, ri, combinedErr, sig, sv, stageErr,
                   stopErr, trace>>
    /\ UNCHANGED runVars
    /\ UNCHANGED restVars

SpecAdd == InitAdd /\ [][AddRecord]_vars

\* StopAll on its own: called on a manager holding one record per host of a
\* background stage, for PIDs that lead a process group and PIDs that do not
\* (terminatePID takes any PID, see TestTerminatePIDStopsProcess)
InitStop ==
    /\ cfg = BackgroundOnly
    /\ pc = "stopAll"
    /\ custom = Seed
    /\ ctxDone = FALSE
    /\ stdout = Garbage
    /\ \E n \in 1..MaxHosts :
         /\ backgroundMgr = [r \in 1..n |-> [stage |-> 1, host |-> r, pid |-> PID(r)]]
         /\ leader \in [1..n -> BOOLEAN]
         /\ proc = n
    /\ i = 2
    /\ hostIndex = 1
    /\ clients = 0
    /\ inFlight = {}
    /\ ev = NoEvents
    /\ firstError = NoError
    /\ ri = 1
    /\ combinedErr = 0
    /\ sig = NoSignals
    /\ sv = NoStops
    /\ stageErr = "nil"
    /\ stopErr = "unset"
    /\ runDirExists = TRUE
    /\ plotsRendered = 0
    /\ metadataWrites = 0
    /\ trace = <<"mkdir", "executeStages">>
    /\ SideInit

SpecStop == InitStop /\ [][StopAll]_vars

----------------------------------------------------------------------------
\* Collected file names: outputFilename, collectStageOutputs and the lookup of
\* generatePlotsForRun.  Strings are sequences of characters.

AliasChars == <<"a", "b", "c", "d">>

Alias(k) == <<AliasChars[k]>>

Local == <<"l", "o", "c", "a", "l">>

\* config.Output: name and remote_path
FileOutputs ==
    {[Name |-> <<"m">>, RemotePath |-> <<"x", ".", "c">>],
     [Name |-> <<"n">>, RemotePath |-> <<"x", ".", "c">>],
     [Name |-> <<"n">>, RemotePath |-> <<"d", ".", "d", "/", "x">>]}

\* the hosts lists explored: none, one alias, MaxHosts distinct aliases, and
\* one alias repeated MaxHosts times
HostLists ==
    {<<>>, <<Alias(1)>>, [k \in 1..MaxHosts |-> Alias(k)],
     [k \in 1..MaxHosts |-> Alias(1)]}

\* the validator: host and hosts are mutually exclusive, and the names of the
\* outputs of a stage are unique within the stage
ValidStage(st) ==
    /\ st.Host # <<>> => st.Hosts = <<>>
    /\ \A a, b \in 1..Len(st.Outputs) :
           st.Outputs[a].Name = st.Outputs[b].Name => a = b

FileStages ==
    {st \in [Host : {<<>>, Alias(1)}, Hosts : HostLists,
             Outputs : UNION {[1..n -> FileOutputs] : n \in 1..MaxOutputs}] :
        ValidStage(st)}

FileConfigs == UNION {[1..n -> FileStages] : n \in 1..MaxStages}

RECURSIVE ExtFrom(_, _)
\* filepath.Ext: the suffix from the last dot of the last path element
ExtFrom(path, k) ==
    IF k = 0 \/ path[k] = "/" THEN <<>>
    ELSE IF path[k] = "." THEN SubSeq(path, k, Len(path))
    ELSE ExtFrom(path, k - 1)

Ext(path) == ExtFrom(path, Len(path))

ResolveStageHostsHostFirst(st) ==
    IF TrimSpace(st.Host) # <<>> THEN <<st.Host>>
    ELSE IF Len(st.Hosts) > 0 THEN st.Hosts ELSE <<Local>>

\* resolveStageHosts
ResolveStageHosts(st) ==
    IF Len(st.Hosts) > 0 THEN st.Hosts
    ELSE IF TrimSpace(st.Host) # <<>> THEN <<st.Host>> ELSE <<Local>>

\* outputFilename
OutputFilename(output, st, hostAlias) ==
    IF Len(st.Hosts) > 0
    THEN output.Name \o <<"_", "_">> \o hostAlias \o Ext(output.RemotePath)
    ELSE output.Name \o Ext(output.RemotePath)

\* the first (stage, output) of the configuration whose output is named source
Matches(stages, source) ==
    {m \in {[s |-> a, o |-> b] : a \in 1..Len(stages), b \in 1..MaxOutputs} :
        /\ m.o <= Len(stages[m.s].Outputs)
        /\ stages[m.s].Outputs[m.o].Name = source}

\* validateConfig, plots: the source is looked up in the set of the output
\* names of all stages
KnownOutput(stages, source) ==
    source \in {stages[m.s].Outputs[m.o].Name :
                   m \in {n \in {[s |-> a, o |-> b] : a \in 1..Len(stages),
                                                      b \in 1..MaxOutputs} :
                             n.o <= Len(stages[n.s].Outputs)}}

FirstMatch(stages, source) ==
    CHOOSE m \in Matches(stages, source) :
        \A n \in Matches(stages, source) :
            m.s < n.s \/ (m.s = n.s /\ m.o <= n.o)

DataSourcePathNoSuffix(stages, source) ==
    LET m == FirstMatch(stages, source)
        output == stages[m.s].Outputs[m.o]
    IN output.Name \o Ext(output.RemotePath)

\* generatePlotsForRun: dataSourcePath of a plot, relative to the run directory
DataSourcePath(stages, source) ==
    LET m == FirstMatch(stages, source)
        st == stages[m.s]
    IN OutputFilename(st.Outputs[m.o], st, ResolveStageHosts(st)[1])

InitFiles ==
    /\ fstages \in FileConfigs
    /\ cursor = [s |-> 1, h |-> 1, o |-> 1]
    /\ runDirFiles = <<>>
    /\ dataSource = [source |-> <<>>, path |-> <<>>]
    /\ existing = {}
    /\ statErr = FALSE
    /\ runNum = 1
    /\ runID = 0
    /\ cfg = BackgroundOnly
    /\ pc = "files"
    /\ custom = Seed
    /\ WorkflowInit
    /\ UnitInit

\* the run directory after client.Scp(ctx, remotePath, runDir/filename) for
\* the copy w
Scp(files, filename, w) ==
    [f \in (DOMAIN files) \cup {filename} |->
        IF f = filename
        THEN (IF f \in DOMAIN files THEN Append(files[f], w) ELSE <<w>>)
        ELSE files[f]]

\* collectStageOutputs: one output of the current stage on the current host
CollectFile ==
    /\ pc = "files"
    /\ cursor.s <= Len(fstages)
    /\ LET st == fstages[cursor.s]
           hosts == ResolveStageHosts(st)
       IN /\ runDirFiles' =
                Scp(runDirFiles,
                    OutputFilename(st.Outputs[cursor.o], st, hosts[cursor.h]),
                    cursor)
          /\ cursor' =
                IF cursor.o < Len(st.Outputs)
                THEN [cursor EXCEPT !.o = @ + 1]
                ELSE IF cursor.h < Len(hosts)
                THEN [cursor EXCEPT !.h = @ + 1, !.o = 1]
                ELSE [s |-> cursor.s + 1, h |-> 1, o |-> 1]
    /\ UNCHANGED <<fstages, dataSource>>
    /\ UNCHANGED <<idVars, unitVars>>
    /\ UNCHANGED <<cfg, ctxDone, pc, i, hostIndex, clients, inFlight, ev,
                   firstError, stageErr, trace, leader>>
    /\ UNCHANGED <<stopVars, runVars, metaVars>>

\* generatePlotsForRun: the lookup of the data source of a plot whose source
\* names some output
LocateDataSource ==
    /\ pc = "files"
    /\ cursor.s > Len(fstages)
    /\ dataSource.source = <<>>
    /\ \E source \in {o.Name : o \in FileOutputs} :
         /\ KnownOutput(fstages, source)
         /\ dataSource' = [source |-> source,
                           path |-> DataSourcePath(fstages, source)]
    /\ UNCHANGED <<fstages, cursor, runDirFiles>>
    /\ UNCHANGED <<idVars, unitVars>>
    /\ UNCHANGED <<cfg, ctxDone, pc, i, hostIndex, clients, inFlight, ev,
                   firstError, stageErr, trace, leader>>
    /\ UNCHANGED <<stopVars, runVars, metaVars>>

NextFiles == CollectFile \/ LocateDataSource

SpecFiles == InitFiles /\ [][NextFiles]_vars

----------------------------------------------------------------------------
\* appendStageMetadata on its own: any captured stdout merged into a custom
\* map that is nil or seeded

InitMerge ==
    /\ cfg = BackgroundOnly
    /\ pc = "merge"
    /\ custom \in {<<>>, Seed}
    /\ WorkflowInit
    /\ SideInit

\* appendStageMetadata(stage, metadata, result.Output)
MergeOutput ==
    /\ pc = "merge"
    /\ \E output \in Stdouts :
         /\ stdout' = output
         /\ custom' = AppendStageMetadata(custom, output).custom
    /\ UNCHANGED <<cfg, ctxDone, pc, i, hostIndex, clients, inFlight, ev,
                   firstError, stageErr, trace, leader>>
    /\ UNCHANGED <<stopVars, runVars, sideVars>>

SpecMerge == InitMerge /\ [][MergeOutput]_vars

----------------------------------------------------------------------------
\* generateRunID on its own: any set of run directories already there

InitRunID ==
    /\ existing \in SUBSET (1..MaxRuns)
    /\ statErr \in BOOLEAN
    /\ runNum = 1
    /\ runID = 0
    /\ fstages = <<>>
    /\ cursor = [s |-> 1, h |-> 1, o |-> 1]
    /\ runDirFiles = <<>>
    /\ dataSource = [source |-> <<>>, path |-> <<>>]
    /\ cfg = BackgroundOnly
    /\ pc = "runID"
    /\ custom = Seed
    /\ WorkflowInit
    /\ UnitInit

\* os.IsNotExist(err) for the error of os.Stat(<output_dir>/<n>): an error
\* of another kind (permission denied on the output root, a component that
\* is not a directory) is not a not-exist error
IsNotExist(n) == ~statErr /\ n \notin existing

\* runNum++ on an int, which wraps around; the width is reduced to IntBits
IntBits == 5
Increment(n) ==
    IF n + 1 >= 2 ^ (IntBits - 1) THEN 0 - 2 ^ (IntBits - 1) ELSE n + 1

StatRunDirOffByOne ==
    /\ pc = "runID"
    /\ runID = 0
    /\ IF IsNotExist(runNum)
       THEN /\ runID' = runNum + 1
            /\ UNCHANGED runNum
       ELSE /\ runNum' = Increment(runNum)
            /\ UNCHANGED runID
    /\ UNCHANGED <<existing, statErr, fileVars, unitVars>>
    /\ UNCHANGED <<cfg, ctxDone, pc, i, hostIndex, clients, inFlight, ev,
                   firstError, stageErr, trace, leader>>
    /\ UNCHANGED <<stopVars, runVars, metaVars>>

\* one turn of the loop of generateRunID: os.Stat(<output_dir>/<runNum>)
StatRunDir ==
    /\ pc = "runID"
    /\ runID = 0
    /\ IF IsNotExist(runNum)
       THEN /\ runID' = runNum
            /\ UNCHANGED runNum
       ELSE /\ runNum' = Increment(runNum)
            /\ UNCHANGED runID
    /\ UNCHANGED <<existing, statErr, fileVars, unitVars>>
    /\ UNCHANGED <<cfg, ctxDone, pc, i, hostIndex, clients, inFlight, ev,
                   firstError, stageErr, trace, leader>>
    /\ UNCHANGED <<stopVars, runVars, metaVars>>

SpecRunID == InitRunID /\ [][StatRunDir]_vars

\* the loop of generateRunID has no blocking step: it keeps turning
SpecRunIDLive == SpecRunID /\ WF_vars(StatRunDir)

----------------------------------------------------------------------------
\* Two invocations of RunWorkflow on one output root: generateRunID, then
\* os.MkdirAll of the run directory

InitRace ==
    /\ existing \in SUBSET (1..MaxRuns)
    /\ statErr = FALSE
    /\ writable \in BOOLEAN
    /\ invocation = [p \in Invocations |-> [pc |-> "runID", runNum |-> 1, runID |-> 0]]
    /\ runNum = 1
    /\ runID = 0
    /\ fstages = <<>>
    /\ cursor = [s |-> 1, h |-> 1, o |-> 1]
    /\ runDirFiles = <<>>
    /\ dataSource = [source |-> <<>>, path |-> <<>>]
    /\ cfg = BackgroundOnly
    /\ pc = "race"
    /\ custom = Seed
    /\ WorkflowInit
    /\ ExecRest
    /\ PrefixRest
    /\ HealthRest
    /\ ValidateRest

raceFrame ==
    /\ UNCHANGED <<runNum, runID, statErr, fileVars, execVars, prefixVars, healthVars,
                   errs>>
    /\ UNCHANGED <<cfg, ctxDone, pc, i, hostIndex, clients, inFlight, ev,
                   firstError, stageErr, trace, leader>>
    /\ UNCHANGED <<stopVars, runVars, metaVars>>

\* one turn of the loop of generateRunID in invocation p
RaceStat(p) ==
    /\ pc = "race"
    /\ invocation[p].pc = "runID"
    /\ LET n == invocation[p].runNum
       IN  invocation' =
             [invocation EXCEPT ![p] =
                IF n \notin existing
                THEN [pc |-> "mkdir", runNum |-> n, runID |-> n]
                ELSE [pc |-> "runID", runNum |-> n + 1, runID |-> 0]]
    /\ UNCHANGED <<existing, writable>>
    /\ raceFrame

\* os.Mkdir: an existing directory is an error
Mkdir(dirs, dir, canWrite) == canWrite /\ dir \notin dirs

\* os.MkdirAll: nil when the directory is already there
MkdirAll(dirs, dir, canWrite) == canWrite

\* RunWorkflow: os.MkdirAll(runDir, 0755), log.Fatalf on an error
RaceMkdir(p) ==
    /\ pc = "race"
    /\ invocation[p].pc = "mkdir"
    /\ IF MkdirAll(existing, invocation[p].runID, writable)
       THEN /\ existing' = existing \cup {invocation[p].runID}
            /\ invocation' = [invocation EXCEPT ![p].pc = "run"]
       ELSE /\ invocation' = [invocation EXCEPT ![p].pc = "fatal"]
            /\ UNCHANGED existing
    /\ UNCHANGED writable
    /\ raceFrame

NextRace == \E p \in Invocations : RaceStat(p) \/ RaceMkdir(p)

SpecRace == InitRace /\ [][NextRace]_vars

----------------------------------------------------------------------------
\* ExecutionClient.RunCommand on its own: the local client (sh -c under
\* exec.CommandContext) and the ssh client (one session per command)

Procs == {"sh", "child"}

\* CommandRequest; remote tells which client serves it, Command whether the
\* command text is non-blank
Requests ==
    [remote : BOOLEAN, Command : BOOLEAN, UsePTY : BOOLEAN,
     DisableCapture : BOOLEAN, Stdout : {"nil", "w1"},
     Stderr : {"nil", "w1", "w2"}, Stdin : BOOLEAN]

InitExec ==
    /\ req \in Requests
    /\ rc = "start"
    /\ alive = {}
    /\ holders = {}
    /\ emitted = NoChunks
    /\ received = [w \in Writers |-> 0]
    /\ captured = 0
    /\ result = NoResult
    /\ cancelled = FALSE
    /\ pipes = NoPipes
    /\ RaceRest
    /\ fstages = <<>>
    /\ cursor = [s |-> 1, h |-> 1, o |-> 1]
    /\ runDirFiles = <<>>
    /\ dataSource = [source |-> <<>>, path |-> <<>>]
    /\ existing = {}
    /\ statErr = FALSE
    /\ runNum = 1
    /\ runID = 0
    /\ cfg = BackgroundOnly
    /\ pc = "exec"
    /\ custom = Seed
    /\ WorkflowInit
    /\ PrefixRest
    /\ HealthRest
    /\ ValidateRest

execFrame ==
    /\ UNCHANGED <<req, fileVars, idVars, raceVars, prefixVars, healthVars,
                   errs>>
    /\ UNCHANGED <<cfg, ctxDone, pc, i, hostIndex, clients, inFlight, ev,
                   firstError, stageErr, trace, leader>>
    /\ UNCHANGED <<stopVars, runVars, metaVars>>

\* var capture *captureBuffer; if !req.DisableCapture { capture = new... }:
\* with DisableCapture it stays a nil pointer, and passed as an io.Writer it
\* is an interface value that holds a nil *captureBuffer, not a nil interface
Capture(r) == IF r.DisableCapture THEN "nilCapture" ELSE "capture"

RECURSIVE Filtered(_, _)
Filtered(writers, seen) ==
    IF writers = <<>> THEN <<>>
    ELSE LET w == Head(writers)
         IN  IF w = "nil" \/ w \in seen
             THEN Filtered(Tail(writers), seen)
             ELSE <<w>> \o Filtered(Tail(writers), seen \cup {w})

\* multiWriterFiltered: drops the writers that are == nil and those whose
\* pointer was seen already; writes go to the rest in order
multiWriterFiltered(writers) == Filtered(writers, {})

\* streaming := req.UsePTY || req.Stdout != nil || req.Stderr != nil ||
\*              req.Stdin != nil
streaming(r) == r.UsePTY \/ r.Stdout # "nil" \/ r.Stderr # "nil" \/ r.Stdin

\* where the copy task of a pipe writes: runLocalPiped, runLocalWithPTY,
\* runStreamingCommand; runCombinedCommand reads session.CombinedOutput
Dest(r, stream) ==
    IF r.remote /\ ~streaming(r) THEN <<"capture">>
    ELSE IF r.UsePTY
         THEN multiWriterFiltered(<<r.Stdout, r.Stderr, Capture(r)>>)
         ELSE IF stream = "stdout"
              THEN multiWriterFiltered(<<r.Stdout, Capture(r)>>)
              ELSE multiWriterFiltered(<<r.Stderr, Capture(r)>>)

\* the writers of dest a Write reaches: (*captureBuffer).Write locks c.mu,
\* which panics on the nil pointer, after the writers listed before it
RECURSIVE Reached(_)
Reached(dest) ==
    IF dest = <<>> \/ Head(dest) = "nilCapture" THEN {}
    ELSE {Head(dest)} \cup Reached(Tail(dest))

Panics(dest) == \E n \in 1..Len(dest) : dest[n] = "nilCapture"

Failed(text) == [Output |-> 0, ExitCode |-> -1, err |-> text]

\* the pipes RunCommand reads the command's output from, each with one copy
\* task: stdout and stderr; one combined (kept under stdout) on a PTY; none
\* of its own in runCombinedCommand, where session.CombinedOutput collects
CopyTasks(r) ==
    IF r.remote /\ ~streaming(r) THEN {}
    ELSE IF r.UsePTY THEN {"stdout"} ELSE Streams

\* the pipe a write of the command on a stream goes to
PipeOf(r, stream) == IF r.UsePTY THEN "stdout" ELSE stream

NotJoined(r, ps) == TRUE

\* wg.Wait() / <-copyDone: every copy task has returned from io.Copy
Joined(r, ps) == \A p \in CopyTasks(r) : ps[p].task = "done"

\* RunCommand up to cmd.Start / session.Start and the launch of the copy tasks
StartCommand ==
    /\ rc = "start"
    /\ IF ~req.Command
       THEN /\ result' = Failed("empty command")
            /\ rc' = "returned"
            /\ UNCHANGED <<alive, holders, pipes>>
       ELSE \E ok \in BOOLEAN :
              IF ok
              THEN /\ alive' = {"sh"}
                   /\ holders' = {"sh"}
                   /\ pipes' = [p \in Streams |->
                                  IF p \in CopyTasks(req)
                                  THEN [pipes[p] EXCEPT !.task = "copying"]
                                  ELSE pipes[p]]
                   /\ rc' = "running"
                   /\ UNCHANGED result
              ELSE /\ result' = Failed("start")
                   /\ rc' = "returned"
                   /\ UNCHANGED <<alive, holders, pipes>>
    /\ UNCHANGED <<emitted, received, captured, cancelled>>
    /\ execFrame

\* the shell forks a child, which inherits the output streams unless the
\* command redirects them
Fork ==
    /\ rc \in {"running", "killed", "wgWait"}
    /\ "sh" \in alive
    /\ "child" \notin alive
    /\ alive' = alive \cup {"child"}
    /\ \E inherits \in BOOLEAN :
         holders' = IF inherits THEN holders \cup {"child"} ELSE holders
    /\ UNCHANGED <<rc, emitted, received, captured, result, cancelled, pipes>>
    /\ execFrame

\* a process of the command writes a chunk to one of its output streams: into
\* the pipe, whose read end is still open, or into the buffer of
\* session.CombinedOutput
Emit ==
    /\ rc \in {"running", "killed", "wgWait"}
    /\ alive \cap holders # {}
    /\ emitted.stdout + emitted.stderr < MaxChunks
    /\ \E stream \in Streams :
         LET p == PipeOf(req, stream)
         IN  /\ emitted' = [emitted EXCEPT ![stream] = @ + 1]
             /\ IF CopyTasks(req) = {}
                THEN /\ captured' = captured + 1
                     /\ UNCHANGED pipes
                ELSE /\ ~pipes[p].closed
                     /\ pipes' = [pipes EXCEPT ![p].unread = @ + 1]
                     /\ UNCHANGED captured
    /\ UNCHANGED <<rc, alive, holders, received, result, cancelled>>
    /\ execFrame

\* io.Copy of a copy task: a chunk is read from the pipe and written to the
\* destination of the pipe
CopyStream ==
    /\ rc \in {"running", "killed", "wgWait"}
    /\ \E p \in CopyTasks(req) :
         LET dest == Dest(req, p)
         IN  /\ pipes[p].task = "copying"
             /\ pipes[p].unread > 0
             /\ pipes' = [pipes EXCEPT ![p].unread = @ - 1]
             /\ received' = [w \in Writers |->
                               IF w \in Reached(dest) THEN received[w] + 1
                               ELSE received[w]]
             /\ captured' = IF "capture" \in Reached(dest)
                            THEN captured + 1 ELSE captured
             /\ rc' = IF Panics(dest) THEN "panic" ELSE rc
    /\ UNCHANGED <<alive, holders, emitted, result, cancelled>>
    /\ execFrame

\* io.Copy of a copy task returns: at EOF, when the pipe is drained and no
\* process holds its write end, or with an error, when its read end was closed
CopyReturns ==
    /\ rc \in {"running", "killed", "wgWait"}
    /\ \E p \in CopyTasks(req) :
         /\ pipes[p].task = "copying"
         /\ \/ pipes[p].closed
            \/ pipes[p].unread = 0 /\ holders = {}
         /\ pipes' = [pipes EXCEPT ![p].task = "done"]
    /\ UNCHANGED <<rc, alive, holders, emitted, received, captured, result,
                   cancelled>>
    /\ execFrame

\* a process of the command exits of its own
Exit ==
    /\ rc \in {"running", "killed", "wgWait"}
    /\ \E p \in alive :
         /\ alive' = alive \ {p}
         /\ holders' = holders \ {p}
    /\ UNCHANGED <<rc, emitted, received, captured, result, cancelled, pipes>>
    /\ execFrame

\* ctx is cancelled or its deadline passes
Cancel ==
    /\ rc = "running"
    /\ ~cancelled
    /\ cancelled' = TRUE
    /\ UNCHANGED <<rc, alive, holders, emitted, received, captured, result,
                   pipes>>
    /\ execFrame

\* exec.CommandContext: once ctx is done, os.Process.Kill on the process
\* sh -c was started as
ContextKill ==
    /\ ~req.remote
    /\ rc = "running"
    /\ cancelled
    /\ "sh" \in alive
    /\ alive' = alive \ {"sh"}
    /\ holders' = holders \ {"sh"}
    /\ rc' = "killed"
    /\ UNCHANGED <<emitted, received, captured, result, cancelled, pipes>>
    /\ execFrame

\* err = cmd.Wait() of runLocalPiped / runLocalWithPTY: it returns once the
\* process sh -c was started as has exited.  Wait closes the read ends that
\* cmd.StdoutPipe and cmd.StderrPipe returned, and what is unread in them is
\* gone; the PTY is closed only by the deferred ptmx.Close().
CmdWait ==
    /\ ~req.remote
    /\ rc \in {"running", "killed"}
    /\ "sh" \notin alive
    /\ \E code \in (IF rc = "killed" THEN {-1} ELSE {0, 1}) :
         result' = [Output |-> 0, ExitCode |-> code,
                    err |-> IF code = 0 THEN "nil" ELSE "exit"]
    /\ pipes' = IF req.UsePTY THEN pipes
                ELSE [p \in Streams |->
                        [pipes[p] EXCEPT !.closed = TRUE, !.unread = 0]]
    /\ rc' = "wgWait"
    /\ UNCHANGED <<alive, holders, emitted, received, captured, cancelled>>
    /\ execFrame

\* runLocalPiped / runLocalWithPTY after cmd.Wait(): wg.Wait() or <-copyDone,
\* then the result with capture.String()
LocalReturn ==
    /\ ~req.remote
    /\ rc = "wgWait"
    /\ Joined(req, pipes)
    /\ result' = [result EXCEPT
                    !.Output = IF req.DisableCapture THEN 0 ELSE captured]
    /\ rc' = "returned"
    /\ UNCHANGED <<alive, holders, emitted, received, captured, cancelled,
                   pipes>>
    /\ execFrame

\* case res := <-resultChan: session.Wait has returned (the remote command
\* has exited), or session.CombinedOutput has (it has exited and its output
\* streams are at EOF); runStreamingCommand goes on to wg.Wait()
RemoteReturn ==
    /\ req.remote
    /\ rc = "running"
    /\ "sh" \notin alive
    /\ streaming(req) \/ holders = {}
    /\ \E code \in {0, 1} :
         result' = [Output |-> IF req.DisableCapture \/ streaming(req)
                               THEN 0 ELSE captured,
                    ExitCode |-> code,
                    err |-> IF code = 0 THEN "nil" ELSE "exit"]
    /\ rc' = IF streaming(req) THEN "wgWait" ELSE "returned"
    /\ UNCHANGED <<alive, holders, emitted, received, captured, cancelled,
                   pipes>>
    /\ execFrame

\* case <-ctx.Done(): session.Signal(ssh.SIGINT); the processes that honour
\* the signal exit.  runCombinedCommand returns at once, runStreamingCommand
\* goes on to wg.Wait()
ContextSignal ==
    /\ req.remote
    /\ rc = "running"
    /\ cancelled
    /\ \E obey \in SUBSET alive :
         /\ alive' = alive \ obey
         /\ holders' = holders \ obey
    /\ IF streaming(req)
       THEN /\ rc' = "wgWait"
            /\ result' = Failed("context done")
       ELSE /\ rc' = "returned"
            /\ \E sent \in BOOLEAN :
                 result' = Failed(IF sent THEN "context done" ELSE "SIGINT")
    /\ UNCHANGED <<emitted, received, captured, cancelled, pipes>>
    /\ execFrame

\* runStreamingCommand: wg.Wait() has returned; the result carries
\* capture.String() unless the context was done
WaitGroupDone ==
    /\ req.remote
    /\ rc = "wgWait"
    /\ Joined(req, pipes)
    /\ result' = [result EXCEPT
                    !.Output = IF req.DisableCapture \/ result.err = "context done"
                               THEN 0 ELSE captured]
    /\ rc' = "returned"
    /\ UNCHANGED <<alive, holders, emitted, received, captured, cancelled,
                   pipes>>
    /\ execFrame

\* the steps RunCommand and its copy tasks take themselves
RunCommand ==
    \/ StartCommand
    \/ CopyStream
    \/ CopyReturns
    \/ ContextKill
    \/ CmdWait
    \/ LocalReturn
    \/ RemoteReturn
    \/ ContextSignal
    \/ WaitGroupDone

NextExec == RunCommand \/ Fork \/ Emit \/ Exit \/ Cancel

SpecExec == InitExec /\ [][NextExec]_vars

\* RunCommand's own steps are taken when they stay possible; the command's
\* processes and the context are under no obligation
SpecExecLive == SpecExec /\ WF_vars(RunCommand)

----------------------------------------------------------------------------
\* The environment prefix: parseEnvironment (the --environment flag) and
\* buildEnvPrefix.  Strings are sequences of characters.

EnvRunID == <<"B","E","N","C","H","C","T","L","_","R","U","N","_","I","D">>
EnvOutputDir ==
    <<"B","E","N","C","H","C","T","L","_","O","U","T","P","U","T","_","D","I","R">>
EnvRunDir == <<"B","E","N","C","H","C","T","L","_","R","U","N","_","D","I","R">>
EnvConfigPath ==
    <<"B","E","N","C","H","C","T","L","_","C","O","N","F","I","G","_","P","A","T","H">>
EnvBenchctl == <<"B","E","N","C","H","C","T","L","_","B","I","N">>

Letters ==
    {"A","B","C","D","E","F","G","H","I","J","K","L","M","N","O","P","Q","R",
     "S","T","U","V","W","X","Y","Z"}
Digits == {"0", "1", "2"}

\* the characters of the keys, in byte order
Ascii ==
    <<" ", "0", "1", "2", "=", "A","B","C","D","E","F","G","H","I","J","K",
      "L","M","N","O","P","Q","R","S","T","U","V","W","X","Y","Z", "_">>

Ord(c) == CHOOSE n \in 1..Len(Ascii) : Ascii[n] = c

\* a < b as Go compares strings
RECURSIVE Less(_, _)
Less(a, b) ==
    IF b = <<>> THEN FALSE
    ELSE IF a = <<>> THEN TRUE
    ELSE IF Head(a) = Head(b) THEN Less(Tail(a), Tail(b))
    ELSE Ord(Head(a)) < Ord(Head(b))

\* sort.Strings on the keys of a map
RECURSIVE SortStrings(_)
SortStrings(keys) ==
    IF keys = {} THEN <<>>
    ELSE LET least == CHOOSE k \in keys : \A o \in keys \ {k} : Less(k, o)
         IN  <<least>> \o SortStrings(keys \ {least})

\* strings.SplitN(entry, "=", 2)
SplitN(entry) ==
    IF \E n \in 1..Len(entry) : entry[n] = "="
    THEN LET at == CHOOSE n \in 1..Len(entry) :
                     /\ entry[n] = "="
                     /\ \A m \in 1..(n - 1) : entry[m] # "="
         IN  <<SubSeq(entry, 1, at - 1), SubSeq(entry, at + 1, Len(entry))>>
    ELSE <<entry>>

\* envKeyPattern = ^[A-Za-z_][A-Za-z0-9_]*$
envKeyPattern(key) ==
    /\ key # <<>>
    /\ key[1] \in Letters \cup {"_"}
    /\ \A n \in 1..Len(key) : key[n] \in Letters \cup Digits \cup {"_"}

\* parseEnvironment: the map built from the entries, or an error at the
\* first entry without "=", with a blank key or with a key off the pattern
RECURSIVE parseEnvironment(_, _)
parseEnvironment(list, m) ==
    IF list = <<>> THEN [err |-> FALSE, envVars |-> m]
    ELSE LET parts == SplitN(Head(list))
             key == TrimSpace(parts[1])
         IN  IF Len(parts) # 2 \/ key = <<>> \/ ~envKeyPattern(key)
             THEN [err |-> TRUE, envVars |-> m]
             ELSE parseEnvironment(Tail(list),
                    [k \in (DOMAIN m) \cup {key} |->
                       IF k = key THEN parts[2] ELSE m[k]])

RECURSIVE ReplaceQuotes(_)
ReplaceQuotes(s) ==
    IF s = <<>> THEN <<>>
    ELSE (IF Head(s) = "'" THEN <<"'", "\"", "'", "\"", "'">> ELSE <<Head(s)>>)
           \o ReplaceQuotes(Tail(s))

shellQuoteBare(s) == <<"'">> \o s \o <<"'">>

\* shellQuote
shellQuote(s) ==
    IF s = <<>> THEN <<"'", "'">>
    ELSE <<"'">> \o ReplaceQuotes(s) \o <<"'">>

Assign(key, value) == key \o <<"=">> \o shellQuote(value)

RECURSIVE UserExports(_, _)
UserExports(keys, m) ==
    IF keys = <<>> THEN <<>>
    ELSE <<Assign(Head(keys), m[Head(keys)])>> \o UserExports(Tail(keys), m)

\* buildEnvPrefix: the exports slice that is joined into "export ...; "
buildEnvPrefix(runId, runDir, outputDir, env, m) ==
    <<Assign(EnvRunID, runId), Assign(EnvOutputDir, outputDir),
      Assign(EnvRunDir, runDir)>>
      \o (IF env.configPath THEN <<Assign(EnvConfigPath, <<"c">>)>> ELSE <<>>)
      \o (IF env.exePath THEN <<Assign(EnvBenchctl, <<"x">>)>> ELSE <<>>)
      \o UserExports(SortStrings(DOMAIN m), m)

\* the keys and values given on the command line
RawKeys ==
    {EnvRunID, <<"F","O","O">>, <<" ","F","O","O">>, <<"B","A","R">>,
     <<"1","X">>, <<>>}
RawValues == {<<"1">>, <<"2">>}
Entries == RawKeys \cup {k \o <<"=">> \o v : k \in RawKeys, v \in RawValues}

InitEnv ==
    /\ entries \in UNION {[1..n -> Entries] : n \in 0..MaxEntries}
    /\ osEnv \in [configPath : BOOLEAN, exePath : BOOLEAN]
    /\ envVars = "unset"
    /\ exports = <<>>
    /\ RaceRest
    /\ ExecRest
    /\ fstages = <<>>
    /\ cursor = [s |-> 1, h |-> 1, o |-> 1]
    /\ runDirFiles = <<>>
    /\ dataSource = [source |-> <<>>, path |-> <<>>]
    /\ existing = {}
    /\ statErr = FALSE
    /\ runNum = 1
    /\ runID = 0
    /\ cfg = BackgroundOnly
    /\ pc = "parseEnv"
    /\ custom = Seed
    /\ WorkflowInit
    /\ HealthRest
    /\ ValidateRest

envFrame ==
    /\ UNCHANGED <<entries, osEnv, fileVars, idVars, raceVars, execVars,
                   healthVars, errs>>
    /\ UNCHANGED <<cfg, ctxDone, i, hostIndex, clients, inFlight, ev,
                   firstError, stageErr, trace, leader>>
    /\ UNCHANGED <<stopVars, runVars, metaVars>>

\* main: envVars, err := parseEnvironment(entries); an error ends the command
ParseEnvironment ==
    /\ pc = "parseEnv"
    /\ LET parsed == parseEnvironment(entries, <<>>)
       IN  IF parsed.err
           THEN /\ pc' = "rejected"
                /\ UNCHANGED envVars
           ELSE /\ pc' = "buildEnv"
                /\ envVars' = parsed.envVars
    /\ UNCHANGED exports
    /\ envFrame

\* executeStages: envPrefix := buildEnvPrefix(runID, runDir, cfg, envVars)
BuildEnvPrefix ==
    /\ pc = "buildEnv"
    /\ exports' = buildEnvPrefix(<<"1">>, <<"o", "/", "1">>, <<"o">>, osEnv, envVars)
    /\ pc' = "built"
    /\ UNCHANGED envVars
    /\ envFrame

NextEnv == ParseEnvironment \/ BuildEnvPrefix

SpecEnv == InitEnv /\ [][NextEnv]_vars

----------------------------------------------------------------------------
\* One foreground host iteration of a stage that declares a health check:
\* the stage command, runHealthCheck (with CallWithRetry), output collection

\* health checks as they can be written in a configuration file
RawHealthChecks ==
    [Type : {"", "port", "http", "file", "process", "command", "tcp"},
     Timeout : {"", "5s", "0s", "soon"},
     Retries : -1..MaxRetries]

\* time.ParseDuration, in seconds
ParseDuration(text) ==
    IF text = "5s" THEN [err |-> FALSE, d |-> 5]
    ELSE IF text = "0s" THEN [err |-> FALSE, d |-> 0]
    ELSE [err |-> TRUE, d |-> 0]

\* validateConfig, health check validation: a type or a timeout that is not
\* given is not looked at
ValidHealthCheck(h) ==
    /\ h.Type # "" => h.Type \in {"port", "http", "file", "process", "command"}
    /\ h.Timeout # "" =>
         /\ ~ParseDuration(h.Timeout).err
         /\ ParseDuration(h.Timeout).d > 0
    /\ h.Retries >= 0

InitHealth ==
    /\ hc \in {h \in RawHealthChecks : ValidHealthCheck(h)}
    /\ hcCtx \in BOOLEAN
    /\ attempts = 0
    /\ hcErr = "nil"
    /\ iter = NoIteration
    /\ RaceRest
    /\ ExecRest
    /\ PrefixRest
    /\ ValidateRest
    /\ fstages = <<>>
    /\ cursor = [s |-> 1, h |-> 1, o |-> 1]
    /\ runDirFiles = <<>>
    /\ dataSource = [source |-> <<>>, path |-> <<>>]
    /\ existing = {}
    /\ statErr = FALSE
    /\ runNum = 1
    /\ runID = 0
    /\ cfg = BackgroundOnly
    /\ pc = "stageCommand"
    /\ custom = Seed
    /\ WorkflowInit

healthFrame ==
    /\ UNCHANGED <<hc, fileVars, idVars, raceVars, execVars, prefixVars, errs>>
    /\ UNCHANGED <<cfg, ctxDone, i, hostIndex, clients, inFlight, ev,
                   firstError, stageErr, trace, leader>>
    /\ UNCHANGED <<stopVars, runVars, metaVars>>

\* executeStages: client.RunCommand of the stage; an error or a non-zero exit
\* code ends the iteration
StageCommand ==
    /\ pc = "stageCommand"
    /\ \E ok \in (IF hcCtx THEN {FALSE} ELSE BOOLEAN) :
         IF ok
         THEN /\ iter' = [iter EXCEPT !.commandRan = TRUE]
              /\ pc' = "runHealthCheck"
              /\ UNCHANGED hcErr
         ELSE /\ iter' = [iter EXCEPT !.commandRan = TRUE]
              /\ hcErr' = "stage failed"
              /\ pc' = "stageReturned"
    /\ UNCHANGED <<attempts, hcCtx>>
    /\ healthFrame

\* the switch of runHealthCheck on hc.Type
Dispatch(type) == IF type = "port" THEN "port" ELSE "unknown"

\* runHealthCheck: time.ParseDuration(hc.Timeout), then the switch
RunHealthCheck ==
    /\ pc = "runHealthCheck"
    /\ IF ParseDuration(hc.Timeout).err
       THEN /\ hcErr' = "error parsing health check timeout"
            /\ iter' = [iter EXCEPT !.checked = TRUE]
            /\ pc' = "stageReturned"
       ELSE IF Dispatch(hc.Type) = "port"
            THEN /\ pc' = "attempt"
                 /\ UNCHANGED <<hcErr, iter>>
            ELSE /\ hcErr' = "unknown health check type"
                 /\ iter' = [iter EXCEPT !.checked = TRUE]
                 /\ pc' = "stageReturned"
    /\ UNCHANGED <<attempts, hcCtx>>
    /\ healthFrame

RetryOnError(outcome, made, maxRetries) ==
    IF outcome = "healthy" THEN "return"
    ELSE IF made > maxRetries THEN "return" ELSE "sleep"

\* CallWithRetry after a call of the predicate: a success and an error are
\* returned at once, a failure is retried while retries are left
AfterAttempt(outcome, made, maxRetries) ==
    IF outcome \in {"healthy", "error"} THEN "return"
    ELSE IF made > maxRetries THEN "return" ELSE "sleep"

\* one call of the predicate, client.CheckPort, and what CallWithRetry and
\* runHealthCheck do with its result
CallPredicate ==
    /\ attempts' = attempts + 1
    /\ \E outcome \in {"healthy", "unhealthy", "error"} :
         /\ IF AfterAttempt(outcome, attempts + 1, hc.Retries) = "sleep"
            THEN /\ pc' = "sleep"
                 /\ iter' = [iter EXCEPT !.last = outcome]
                 /\ UNCHANGED hcErr
            ELSE /\ iter' = [iter EXCEPT !.checked = TRUE, !.last = outcome]
                 /\ hcErr' = IF outcome = "healthy" THEN "nil"
                             ELSE IF outcome = "error" THEN "health check failed"
                             ELSE "port is not listening"
                 /\ pc' = IF outcome = "healthy" THEN "collect"
                          ELSE "stageReturned"

\* CallWithRetry: the first attempt
Attempt ==
    /\ pc = "attempt"
    /\ CallPredicate
    /\ UNCHANGED hcCtx
    /\ healthFrame

\* CallWithRetry between two attempts: the base delay passes and the
\* predicate is called again, or the context is done and the call is given up
Retry ==
    /\ pc = "sleep"
    /\ IF hcCtx
       THEN /\ iter' = [iter EXCEPT !.checked = TRUE]
            /\ hcErr' = "health check failed"
            /\ pc' = "stageReturned"
            /\ UNCHANGED attempts
       ELSE CallPredicate
    /\ UNCHANGED hcCtx
    /\ healthFrame

\* the context is cancelled or runs out during the health check
HealthCtxDone ==
    /\ pc \in {"runHealthCheck", "attempt", "sleep"}
    /\ ~hcCtx
    /\ hcCtx' = TRUE
    /\ UNCHANGED <<pc, attempts, hcErr, iter>>
    /\ healthFrame

\* collectStageOutputs
HealthCollect ==
    /\ pc = "collect"
    /\ iter' = [iter EXCEPT !.collected = TRUE]
    /\ \E ok \in BOOLEAN :
         hcErr' = IF ok THEN "nil" ELSE "collect failed"
    /\ pc' = "stageReturned"
    /\ UNCHANGED <<attempts, hcCtx>>
    /\ healthFrame

NextHealth ==
    \/ StageCommand
    \/ RunHealthCheck
    \/ Attempt
    \/ Retry
    \/ HealthCtxDone
    \/ HealthCollect

SpecHealth == InitHealth /\ [][NextHealth]_vars

----------------------------------------------------------------------------
\* config.ParseYAML: validateConfig on a decoded configuration that declares
\* no outputs and no plots

\* a decoded stage: whether its name, command and script are non-blank, its
\* host alias, its flags and its health check (a pointer: <<>> is nil)
RawStages ==
    [Name : BOOLEAN, Host : {"", "local", "zz"}, Command : BOOLEAN,
     Script : BOOLEAN, Background : BOOLEAN, AppendMetadata : BOOLEAN,
     HealthCheck : {<<>>, <<[Type |-> "tcp", Timeout |-> "5s", Retries |-> 0]>>}]

RawConfigs ==
    [Benchmark : [Name : BOOLEAN, OutputDir : BOOLEAN],
     Stages : UNION {[1..n -> RawStages] : n \in 0..MaxRawStages}]

\* the hosts table of the configurations explored, with "local" always there
hostAliases == {"a", "local"}

StageRulesWithoutBackground(st) ==
    (IF st.Name THEN {} ELSE {"name must be set"})
      \cup (IF st.Host # "" /\ st.Host \notin hostAliases
            THEN {"host references unknown host"} ELSE {})
      \cup (IF st.Command = st.Script
            THEN {"exactly one of command or script must be set"} ELSE {})
      \cup (IF st.HealthCheck # <<>> /\ ~ValidHealthCheck(st.HealthCheck[1])
            THEN {"health_check"} ELSE {})

\* validateConfig, the body of the loop over the stages
StageRules(st) ==
    (IF st.Name THEN {} ELSE {"name must be set"})
      \cup (IF st.Host # "" /\ st.Host \notin hostAliases
            THEN {"host references unknown host"} ELSE {})
      \cup (IF st.Command = st.Script
            THEN {"exactly one of command or script must be set"} ELSE {})
      \cup (IF st.Background /\ st.AppendMetadata
            THEN {"background=true cannot set append_metadata"} ELSE {})
      \cup (IF st.HealthCheck # <<>> /\ ~ValidHealthCheck(st.HealthCheck[1])
            THEN {"health_check"} ELSE {})

\* validateConfig: every rule is applied; the errors are collected
validateConfig(c) ==
    (IF c.Benchmark.Name THEN {} ELSE {"benchmark.name must be set"})
      \cup (IF c.Benchmark.OutputDir THEN {}
            ELSE {"benchmark.output_dir must be set"})
      \cup UNION {StageRules(c.Stages[n]) : n \in 1..Len(c.Stages)}

InitValidate ==
    /\ cfg \in RawConfigs
    /\ errs = {}
    /\ pc = "ParseYAML"
    /\ RaceRest
    /\ ExecRest
    /\ PrefixRest
    /\ HealthRest
    /\ fstages = <<>>
    /\ cursor = [s |-> 1, h |-> 1, o |-> 1]
    /\ runDirFiles = <<>>
    /\ dataSource = [source |-> <<>>, path |-> <<>>]
    /\ existing = {}
    /\ statErr = FALSE
    /\ runNum = 1
    /\ runID = 0
    /\ custom = Seed
    /\ WorkflowInit

\* ParseYAML: the configuration is returned when validateConfig found no
\* error, and only then is it handed to the executor
ParseYAML ==
    /\ pc = "ParseYAML"
    /\ errs' = validateConfig(cfg)
    /\ pc' = IF validateConfig(cfg) = {} THEN "accepted" ELSE "rejected"
    /\ UNCHANGED <<fileVars, idVars, raceVars, execVars, prefixVars, healthVars>>
    /\ UNCHANGED <<cfg, ctxDone, i, hostIndex, clients, inFlight, ev,
                   firstError, stageErr, trace, leader>>
    /\ UNCHANGED <<stopVars, runVars, metaVars>>

SpecValidate == InitValidate /\ [][ParseYAML]_vars

----------------------------------------------------------------------------
\* executeStages, the host loop of one stage: resolveStageHosts, the lookup of
\* each alias in cfg.Hosts and openExecutionClient

Unknown == <<"z">>

\* config.Host, reduced to its IP: none, or an address
EmptyHost == [IP |-> <<>>]
RemoteHost == [IP |-> <<"1">>]

\* cfg.Hosts: one remote host; with it an entry named local, remote or without
\* an address
HostTables ==
    {Alias(1) :> RemoteHost,
     (Alias(1) :> RemoteHost) @@ (Local :> RemoteHost),
     (Alias(1) :> RemoteHost) @@ (Local :> EmptyHost)}

\* stages as executeStages may be handed them: host empty, blank, known,
\* "local" or unknown; hosts a list of up to MaxHosts of those aliases
LookupStages ==
    [Host : {<<>>, <<" ">>, Alias(1), Local, Unknown},
     Hosts : UNION {[1..n -> {Alias(1), Local, Unknown}] : n \in 0..MaxHosts}]

InitLookup ==
    /\ cfg \in [Stage : LookupStages, Hosts : HostTables]
    /\ pc = "resolve"
    /\ custom = Seed
    /\ WorkflowInit
    /\ SideInit

lookupFrame ==
    /\ UNCHANGED <<cfg, ctxDone, i, inFlight, ev>>
    /\ UNCHANGED <<stopVars, runVars, restVars>>

\* hostAliases := resolveStageHosts(stage); the host loop begins
ResolveHosts ==
    /\ pc = "resolve"
    /\ hostIndex' = 1
    /\ pc' = "lookup"
    /\ UNCHANGED <<clients, firstError, stageErr, trace>>
    /\ lookupFrame

\* openExecutionClient: a host without an address is served by the local
\* client, any other by an ssh client
ClientKind(host) == IF TrimSpace(host.IP) = <<>> THEN "local" ELSE "ssh"

LookupReturns(kind) ==
    /\ firstError' = [stage |-> i, host |-> hostIndex, kind |-> kind]
    /\ stageErr' = "err"
    /\ pc' = "returned"
    /\ UNCHANGED hostIndex

\* one iteration of the host loop: host, ok := cfg.Hosts[hostAlias]; an alias
\* that is not in the table is an error unless it is "local", which gets the
\* empty host; then openExecutionClient and the rest of the iteration, which
\* closes the client whatever its outcome
HostIteration ==
    /\ pc = "lookup"
    /\ hostIndex <= Len(ResolveStageHosts(cfg.Stage))
    /\ LET hostAlias == ResolveStageHosts(cfg.Stage)[hostIndex]
           ok == hostAlias \in DOMAIN cfg.Hosts
           host == IF ok THEN cfg.Hosts[hostAlias] ELSE EmptyHost
           client == [alias |-> hostAlias, host |-> host,
                      kind |-> ClientKind(host)]
       IN  IF ~ok /\ hostAlias # Local
           THEN /\ LookupReturns("unknown host")
                /\ UNCHANGED trace
           ELSE \E outcome \in {"done", "open", "failed"} :
                  /\ trace' = IF outcome = "open" THEN trace
                              ELSE Append(trace, client)
                  /\ IF outcome = "done"
                     THEN /\ hostIndex' = hostIndex + 1
                          /\ UNCHANGED <<pc, firstError, stageErr>>
                     ELSE LookupReturns(outcome)
    /\ UNCHANGED clients
    /\ lookupFrame

\* the host loop of the stage is over
HostsDone ==
    /\ pc = "lookup"
    /\ hostIndex > Len(ResolveStageHosts(cfg.Stage))
    /\ stageErr' = "nil"
    /\ pc' = "returned"
    /\ UNCHANGED <<hostIndex, clients, firstError, trace>>
    /\ lookupFrame

NextLookup == ResolveHosts \/ HostIteration \/ HostsDone

SpecLookup == InitLookup /\ [][NextLookup]_vars

----------------------------------------------------------------------------
\* A quoted value on its way to the stage: the command line that
\* executeStages builds from an exported value and a command body, and the
\* words that the shell of RunCommand ("sh -c") makes of it

QuoteAlphabet == {"'", " ", "a", "\"", "\\", "$"}
QuoteValues == UNION {[1..n -> QuoteAlphabet] : n \in 0..MaxValueLen}

\* an exported value and a command body, one of them a single character at most
QuotePairs ==
    LET short == {s \in QuoteValues : Len(s) <= 1}
    IN  (short \X QuoteValues) \cup (QuoteValues \X short)

ExportWord == <<"e", "x", "p", "o", "r", "t">>
QuoteKey == <<"K">>
QuoteShell == <<"s", "h">>

\* wrapWithShell, for a shell that is given
wrapWithShell(command, shell) == shell \o <<" ">> \o shellQuote(command)

\* executeStages: Command: envPrefix + commandBody, with the prefix
\* "export " + strings.Join(exports, " ") + "; " of buildEnvPrefix
CommandLine(value, body) ==
    ExportWord \o <<" ">> \o Assign(QuoteKey, value) \o <<";", " ">>
      \o wrapWithShell(body, QuoteShell)

\* what a parameter expansion leaves in a word
Expanded == "?"

\* the words a POSIX shell reads from a line: text between single quotes is
\* literal; between double quotes a backslash escapes $ " \ and $ expands;
\* outside quotes a backslash escapes the next character, $ expands, and a
\* blank or a semicolon ends the word
RECURSIVE ShellScan(_, _, _, _, _)
ShellScan(t, mode, word, open, words) ==
    IF t = <<>> THEN (IF open THEN Append(words, word) ELSE words)
    ELSE LET c == Head(t)
             rest == Tail(t)
         IN  IF mode = "single"
             THEN IF c = "'"
                  THEN ShellScan(rest, "plain", word, TRUE, words)
                  ELSE ShellScan(rest, "single", Append(word, c), TRUE, words)
             ELSE IF mode = "double"
             THEN IF c = "\""
                  THEN ShellScan(rest, "plain", word, TRUE, words)
                  ELSE IF c = "\\" /\ rest # <<>>
                          /\ Head(rest) \in {"$", "\"", "\\"}
                  THEN ShellScan(Tail(rest), "double",
                                 Append(word, Head(rest)), TRUE, words)
                  ELSE IF c = "$"
                  THEN ShellScan(rest, "double", Append(word, Expanded),
                                 TRUE, words)
                  ELSE ShellScan(rest, "double", Append(word, c), TRUE, words)
             ELSE IF c = "'"
                  THEN ShellScan(rest, "single", word, TRUE, words)
                  ELSE IF c = "\""
                  THEN ShellScan(rest, "double", word, TRUE, words)
                  ELSE IF c = "\\" /\ rest # <<>>
                  THEN ShellScan(Tail(rest), "plain",
                                 Append(word, Head(rest)), TRUE, words)
                  ELSE IF c \in {" ", ";"}
                  THEN ShellScan(rest, "plain", <<>>, FALSE,
                                 IF open THEN Append(words, word) ELSE words)
                  ELSE IF c = "$"
                  THEN ShellScan(rest, "plain", Append(word, Expanded),
                                 TRUE, words)
                  ELSE ShellScan(rest, "plain", Append(word, c), TRUE, words)

ShellRead(text) == ShellScan(text, "plain", <<>>, FALSE, <<>>)

InitQuote ==
    /\ entries \in QuotePairs
    /\ osEnv = [configPath |-> FALSE, exePath |-> FALSE]
    /\ envVars = "unset"
    /\ exports = <<>>
    /\ RaceRest
    /\ ExecRest
    /\ fstages = <<>>
    /\ cursor = [s |-> 1, h |-> 1, o |-> 1]
    /\ runDirFiles = <<>>
    /\ dataSource = [source |-> <<>>, path |-> <<>>]
    /\ existing = {}
    /\ statErr = FALSE
    /\ runNum = 1
    /\ runID = 0
    /\ cfg = BackgroundOnly
    /\ pc = "quote"
    /\ custom = Seed
    /\ WorkflowInit
    /\ HealthRest
    /\ ValidateRest

\* executeStages: the command of a stage is put together
BuildCommand ==
    /\ pc = "quote"
    /\ exports' = CommandLine(entries[1], entries[2])
    /\ pc' = "quoted"
    /\ UNCHANGED envVars
    /\ envFrame

\* RunCommand: the shell splits the command into words
ShellReads ==
    /\ pc = "quoted"
    /\ envVars' = ShellRead(exports)
    /\ pc' = "read"
    /\ UNCHANGED exports
    /\ envFrame

NextQuote == BuildCommand \/ ShellReads

SpecQuote == InitQuote /\ [][NextQuote]_vars

----------------------------------------------------------------------------
\* The files of one run: what executeStages and StopAll copy into the run
\* directory, and the path generatePlotsForRun hands to the renderer

\* stages with the skip flag of applySkipFlags; a skipped stage is read for
\* nothing but its outputs, so it is explored as a foreground stage
PlotStages ==
    {st \in [Skip : BOOLEAN, Background : BOOLEAN, Host : {<<>>},
             Hosts : {<<>>, [k \in 1..MaxHosts |-> Alias(k)]},
             Outputs : UNION {[1..n -> {o \in FileOutputs :
                                           o.RemotePath = <<"x", ".", "c">>}] :
                                n \in 0..MaxOutputs}] :
        /\ ValidStage(st)
        /\ st.Skip => ~st.Background}

PlotConfigs == UNION {[1..n -> PlotStages] : n \in 1..MaxStages}

\* the plot of the configuration: none, or one whose source validateConfig
\* found among the output names
PlotSources(stages) ==
    {<<>>} \cup {o.Name : o \in {f \in FileOutputs : KnownOutput(stages, f.Name)}}

InitPlotFiles ==
    /\ fstages \in PlotConfigs
    /\ cursor = [s |-> 1, h |-> 1, o |-> 1]
    /\ runDirFiles = <<>>
    /\ dataSource \in {[source |-> s, path |-> <<>>] : s \in PlotSources(fstages)}
    /\ existing = {}
    /\ statErr = FALSE
    /\ runNum = 1
    /\ runID = 0
    /\ cfg = BackgroundOnly
    /\ pc = "stages"
    /\ custom = Seed
    /\ WorkflowInit
    /\ UnitInit

plotFrame ==
    /\ UNCHANGED <<fstages, idVars, unitVars>>
    /\ UNCHANGED <<cfg, ctxDone, i, hostIndex, clients, inFlight, ev,
                   firstError, trace, leader>>
    /\ UNCHANGED <<proc, combinedErr, sig, sv>>
    /\ UNCHANGED <<runVars, metaVars>>

\* the cursor after the host iteration at c of a stage with the given hosts
NextHost(c, hosts) ==
    IF c.h < Len(hosts) THEN [c EXCEPT !.h = @ + 1, !.o = 1]
    ELSE [s |-> c.s + 1, h |-> 1, o |-> 1]

\* collectStageOutputs: the run directory after the first k outputs of the
\* stage have been copied for the host alias
RECURSIVE CopyOutputs(_, _, _, _, _)
CopyOutputs(files, st, hostAlias, k, w) ==
    IF k = 0 THEN files
    ELSE Scp(CopyOutputs(files, st, hostAlias, k - 1, w),
             OutputFilename(st.Outputs[k], st, hostAlias),
             [w EXCEPT !.o = k])

\* executeStages: if stage.Skip { continue }
FilesSkipStage ==
    /\ pc = "stages"
    /\ cursor.s <= Len(fstages)
    /\ fstages[cursor.s].Skip
    /\ cursor' = [s |-> cursor.s + 1, h |-> 1, o |-> 1]
    /\ UNCHANGED <<pc, runDirFiles, dataSource, backgroundMgr, ri, stopErr,
                   stageErr>>
    /\ plotFrame

\* executeStages, one host iteration of a background stage: the launch fails
\* and ends the stage loop, or the process is registered; nothing is copied
FilesLaunch ==
    /\ pc = "stages"
    /\ cursor.s <= Len(fstages)
    /\ LET st == fstages[cursor.s]
           hosts == ResolveStageHosts(st)
       IN /\ ~st.Skip
          /\ st.Background
          /\ \E ok \in BOOLEAN :
               IF ok
               THEN /\ backgroundMgr' =
                         Append(backgroundMgr,
                                [stage |-> cursor.s, hostAlias |-> hosts[cursor.h]])
                    /\ cursor' = NextHost(cursor, hosts)
                    /\ UNCHANGED <<pc, stageErr>>
               ELSE /\ stageErr' = "err"
                    /\ pc' = "stopAll"
                    /\ UNCHANGED <<backgroundMgr, cursor>>
    /\ UNCHANGED <<runDirFiles, dataSource, ri, stopErr>>
    /\ plotFrame

\* executeStages, one host iteration of a foreground stage: the command, then
\* collectStageOutputs, which returns at the first copy that fails; either
\* failure ends the stage loop with an error
FilesForeground ==
    /\ pc = "stages"
    /\ cursor.s <= Len(fstages)
    /\ LET st == fstages[cursor.s]
           hosts == ResolveStageHosts(st)
       IN /\ ~st.Skip
          /\ ~st.Background
          /\ \E ran \in BOOLEAN, k \in 0..Len(st.Outputs) :
               IF ~ran
               THEN /\ stageErr' = "err"
                    /\ pc' = "stopAll"
                    /\ UNCHANGED <<runDirFiles, cursor>>
               ELSE /\ runDirFiles' =
                         CopyOutputs(runDirFiles, st, hosts[cursor.h], k, cursor)
                    /\ IF k < Len(st.Outputs)
                       THEN /\ stageErr' = "err"
                            /\ pc' = "stopAll"
                            /\ UNCHANGED cursor
                       ELSE /\ cursor' = NextHost(cursor, hosts)
                            /\ UNCHANGED <<pc, stageErr>>
    /\ UNCHANGED <<dataSource, backgroundMgr, ri, stopErr>>
    /\ plotFrame

\* executeStages returns nil after the last stage
FilesStagesReturn ==
    /\ pc = "stages"
    /\ cursor.s > Len(fstages)
    /\ stageErr' = "nil"
    /\ pc' = "stopAll"
    /\ UNCHANGED <<cursor, runDirFiles, dataSource, backgroundMgr, ri, stopErr>>
    /\ plotFrame

\* stopStage of the record ri: terminatePID, whose error is returned and
\* joined into the error of StopAll, then the collection of the outputs of the
\* stage, whose error is logged as a warning and dropped
FilesStopStage ==
    /\ pc = "stopAll"
    /\ ri <= Len(backgroundMgr)
    /\ LET st == fstages[record.stage]
       IN \E terminated \in BOOLEAN, k \in 0..Len(st.Outputs) :
            IF ~terminated
            THEN /\ stopErr' = "err"
                 /\ UNCHANGED runDirFiles
            ELSE /\ runDirFiles' =
                      CopyOutputs(runDirFiles, st, record.hostAlias, k,
                                  [s |-> record.stage, h |-> ri, o |-> 1])
                 /\ UNCHANGED stopErr
    /\ ri' = ri + 1
    /\ UNCHANGED <<pc, cursor, dataSource, backgroundMgr, stageErr>>
    /\ plotFrame

\* StopAll returns; RunWorkflow ends the run on either error
FilesStopAllReturns ==
    /\ pc = "stopAll"
    /\ ri > Len(backgroundMgr)
    /\ stopErr' = IF stopErr = "err" THEN "err" ELSE "nil"
    /\ pc' = AfterStopAll(stageErr, stopErr')
    /\ UNCHANGED <<cursor, runDirFiles, dataSource, backgroundMgr, ri, stageErr>>
    /\ plotFrame

\* generatePlotsForRun: len(cfg.Plots) == 0, or the data source path of the
\* plot is built from the configuration and handed to plotter.GeneratePlot
FilesGeneratePlot ==
    /\ pc = "plots"
    /\ IF dataSource.source = <<>>
       THEN /\ pc' = "save"
            /\ UNCHANGED dataSource
       ELSE /\ dataSource' =
                 [dataSource EXCEPT !.path =
                                        DataSourcePath(fstages, dataSource.source)]
            /\ pc' = "rendering"
    /\ UNCHANGED <<cursor, runDirFiles, backgroundMgr, ri, stopErr, stageErr>>
    /\ plotFrame

NextPlotFiles ==
    \/ FilesSkipStage
    \/ FilesLaunch
    \/ FilesForeground
    \/ FilesStagesReturn
    \/ FilesStopStage
    \/ FilesStopAllReturns
    \/ FilesGeneratePlot

SpecPlotFiles == InitPlotFiles /\ [][NextPlotFiles]_vars

----------------------------------------------------------------------------
\* Properties

StageOf(p) == cfg.Stages[p[1]]

\* every (stage, host) iteration executeStages has touched in any way
Touched ==
    ev.opened \cup ev.issued \cup ev.exited0 \cup ev.hcIssued \cup ev.hcPassed
      \cup ev.collecting \cup ev.completed \cup ev.launched
      \cup {<<c[1], c[2]>> : c \in ev.copied}

\* the foreground iteration (s, h) ran to its end: command exited 0, health
\* check (when declared) passed, every output copied
HostSucceeded(s, h) ==
    /\ <<s, h>> \in ev.exited0
    /\ <<s, h>> \notin inFlight
    /\ cfg.Stages[s].HealthCheck => <<s, h>> \in ev.hcPassed
    /\ \A o \in 1..cfg.Stages[s].Outputs : <<s, h, o>> \in ev.copied

\* the iteration (s, h) is over: succeeded (foreground) or launched and
\* registered (background)
HostDone(s, h) ==
    IF cfg.Stages[s].Background
    THEN /\ <<s, h>> \in ev.launched
         /\ \E r \in 1..Len(backgroundMgr) :
              backgroundMgr[r].stage = s /\ backgroundMgr[r].host = h
    ELSE HostSucceeded(s, h)

StageDone(s) == \A h \in 1..cfg.Stages[s].Hosts : HostDone(s, h)

\* C1: fail-fast -- once executeStages has hit its first hard error it issues
\* no further command, health check or output copy, opens no client and
\* registers no background record, on any remaining host or later stage.
C1_FailFast ==
    [][firstError # NoError =>
         /\ ev' = ev
         /\ inFlight' = inFlight
         /\ backgroundMgr' = backgroundMgr]_vars

\* a command failed on a host that is neither the last of its stage nor in
\* the last stage, and the workflow has terminated
C1_Witness ==
    /\ pc = "fatal"
    /\ firstError.kind = "command"
    /\ firstError.host < cfg.Stages[firstError.stage].Hosts
    /\ firstError.stage < Len(cfg.Stages)
    /\ ~cfg.Stages[firstError.stage + 1].Skip

\* C2: when executeStages returned an error, the fatal exit of RunWorkflow is
\* reached only after StopAll has returned, having attempted to stop every
\* background record registered before the failure.
C2_StopAllBeforeFatal ==
    (pc = "fatal" /\ stageErr = "err") =>
        /\ stopErr # "unset"
        /\ sv.attempted = 1..Len(backgroundMgr)
        /\ trace = <<"mkdir", "executeStages", "StopAll">>

C2_Witness ==
    /\ pc = "fatal"
    /\ stageErr = "err"
    /\ Len(backgroundMgr) >= 2

\* C3: once StopAll has returned, no process group of a registered background
\* record is still alive.
C3_NoProcessAfterStopAll ==
    stopErr # "unset" => proc = 0

\* C4: a stage is touched only after every earlier non-skipped stage is done
\* on all of its hosts (foreground: succeeded; background: launched).
C4_DeclarationOrder ==
    \A p \in Touched :
        \A t \in 1..(p[1] - 1) :
            ~cfg.Stages[t].Skip => StageDone(t)

C4_Witness ==
    /\ Len(cfg.Stages) >= 2
    /\ <<2, 1>> \in ev.issued
    /\ ~cfg.Stages[1].Skip
    /\ cfg.Stages[1].Hosts = MaxHosts

\* C5: within a stage host k+1 is touched only after host k is done, and at
\* most one foreground command is in flight.
C5_HostsSequential ==
    /\ Cardinality(inFlight) <= 1
    /\ \A p \in Touched : p[2] > 1 => HostDone(p[1], p[2] - 1)

C5_Witness ==
    \E p \in ev.issued :
        /\ p[2] > 1
        /\ ~StageOf(p).Background
        /\ StageOf(p).HealthCheck
        /\ StageOf(p).Outputs > 0

\* C6: output collection of a foreground iteration starts only after its
\* command exited 0 and its health check (when declared) passed; when the
\* command or the health check failed, no output of that iteration is copied.
C6_CollectAfterCommandAndHealth ==
    /\ \A p \in ev.collecting :
           /\ p \in ev.exited0
           /\ StageOf(p).HealthCheck => p \in ev.hcPassed
    /\ \A c \in ev.copied : <<c[1], c[2]>> \in ev.collecting
    /\ firstError.kind \in {"command", "health"} =>
           \A c \in ev.copied :
               <<c[1], c[2]>> # <<firstError.stage, firstError.host>>

C6_Witness ==
    /\ \E c \in ev.copied : StageOf(c).HealthCheck
    /\ firstError.kind = "health"
    /\ cfg.Stages[firstError.stage].Outputs > 0

\* C7: a skipped stage is touched on no host and registers no background
\* record; when executeStages returns nil every other stage is done.
C7_SkippedStageUntouched ==
    /\ \A p \in Touched : ~StageOf(p).Skip
    /\ \A r \in 1..Len(backgroundMgr) : ~cfg.Stages[backgroundMgr[r].stage].Skip
    /\ stageErr = "nil" =>
           \A s \in 1..Len(cfg.Stages) : ~cfg.Stages[s].Skip => StageDone(s)

C7_Witness ==
    /\ stageErr = "nil"
    /\ Len(cfg.Stages) >= 2
    /\ cfg.Stages[1].Skip
    /\ cfg.Stages[1].Background
    /\ ~cfg.Stages[2].Skip
    /\ StageDone(2)

\* C8: when a stage failed and the workflow has terminated, the run directory
\* exists and contains metadata.json.
C8_MetadataAfterFailure ==
    (pc = "fatal" /\ stageErr = "err") =>
        (runDirExists /\ metadataWrites >= 1)

PlotEvents(n) == [k \in 1..n |-> "plot"]

\* C9: a successful run goes through all stages, StopAll, the plots and the
\* metadata in this order; metadata.json is written once, only after every
\* plot rendered, with the end time captured after the plots.
C9_PhaseOrder ==
    /\ metadataWrites <= 1
    /\ metadataWrites = 1 =>
           /\ plotsRendered = cfg.Plots
           /\ stageErr = "nil"
           /\ stopErr = "nil"
    /\ pc = "done" =>
           /\ metadataWrites = 1
           /\ trace = <<"mkdir", "executeStages", "StopAll">>
                        \o PlotEvents(cfg.Plots)
                        \o <<"EndTime", "metadata.json">>

C9_Witness ==
    /\ pc = "done"
    /\ cfg.Plots >= 1
    /\ Len(backgroundMgr) >= 1

\* C10: when every stage succeeded and StopAll returned an error the run is
\* fatal, no plot is rendered and metadata.json is not written.
C10_StopErrorIsFatal ==
    (stageErr = "nil" /\ stopErr = "err") =>
        /\ pc = "fatal"
        /\ plotsRendered = 0
        /\ metadataWrites = 0

C10_Witness ==
    /\ pc = "fatal"
    /\ stageErr = "nil"
    /\ stopErr = "err"
    /\ cfg.Plots > 0

\* C11: when StopAll has returned it has attempted every registered record,
\* whatever the earlier ones returned; the error it returns joins one error
\* per record whose stopStage failed, and is nil exactly when none failed.
C11_StopAllAccumulates ==
    stopErr # "unset" =>
        /\ sv.attempted = 1..Len(backgroundMgr)
        /\ combinedErr = sv.failed
        /\ (stopErr = "nil") = (sv.failed = 0)

\* two records failed to stop, so the second was attempted after a failure
C11_Witness ==
    /\ stopErr = "err"
    /\ Len(backgroundMgr) >= 2
    /\ sv.failed >= 2
    /\ sv.attempted = 1..Len(backgroundMgr)

\* C12: Add is idempotent per record: the manager never holds the same
\* (stage, host, pid) record at two positions, so the loop of StopAll, which
\* visits every position once, stops each record once.
C12_AddIdempotent ==
    \A a, b \in 1..Len(backgroundMgr) :
        backgroundMgr[a] = backgroundMgr[b] => a = b

\* C13: when terminatePID returns nil for a PID that leads no process group,
\* the process has exited.
C13_NonLeaderStopped ==
    (pc = "bgCollect" /\ ~leader[ri]) => sig.exited

\* C14: the file collected for output O of stage S on host H is named
\* O.name "__" H ext(O.remote_path) when S runs on more than one host, and
\* O.name ext(O.remote_path) when S runs on exactly one host.
C14_CollectedFilename ==
    \A f \in DOMAIN runDirFiles :
        \A k \in 1..Len(runDirFiles[f]) :
            LET w == runDirFiles[f][k]
                st == fstages[w.s]
                hosts == ResolveStageHosts(st)
                output == st.Outputs[w.o]
            IN f = IF Len(hosts) > 1
                   THEN output.Name \o <<"_", "_">> \o hosts[w.h]
                          \o Ext(output.RemotePath)
                   ELSE output.Name \o Ext(output.RemotePath)

\* C15: within a stage that fans out over a hosts list, no two distinct
\* (position in the hosts list, output) pairs are collected to the same file.
C15_DistinctFilenames ==
    \A f \in DOMAIN runDirFiles :
        \A j, k \in 1..Len(runDirFiles[f]) :
            (/\ runDirFiles[f][j].s = runDirFiles[f][k].s
             /\ Len(fstages[runDirFiles[f][j].s].Hosts) > 0) => j = k

C17_OnlyFirstHostAppends ==
    [][custom' # custom =>
         (pc = "running" /\ hostIndex = 1 /\ stage.AppendMetadata)]_vars

\* a later host of an append_metadata stage printed a JSON object while the
\* custom map still is the seeded one
C17_Witness ==
    /\ hostIndex > 1
    /\ here \in ev.exited0
    /\ stage.AppendMetadata
    /\ stdout.kind = "object"
    /\ custom = Seed

\* C18: when the stdout of the first host of an append_metadata stage does
\* not decode, the custom map is left as it was, no error is raised and the
\* iteration goes on with its health check and output collection.
C18_DecodeFailureIsWarning ==
    [][(/\ pc = "running"
        /\ here \in ev'.exited0
        /\ hostIndex = 1
        /\ stage.AppendMetadata
        /\ Decode(stdout').err) =>
           (/\ custom' = custom
            /\ firstError' = NoError
            /\ stageErr' = "unset"
            /\ pc' = AfterCommand(stage)
            /\ pc' \in {"health", "collect"})]_vars

\* after a stdout that did not decode, the health check of that host has
\* passed and its outputs are about to be collected
C18_Witness ==
    /\ pc = "collect"
    /\ hostIndex = 1
    /\ stage.AppendMetadata
    /\ Decode(stdout).err
    /\ here \in ev.hcPassed
    /\ custom = Seed

\* the keys of the members of a JSON object text
EmittedKeys(output) == {output.members[n][1] : n \in 1..Len(output.members)}

\* the value of the last member of key k in a JSON object text
LastValue(output, k) ==
    LET n == CHOOSE a \in 1..Len(output.members) :
                 /\ output.members[a][1] = k
                 /\ \A b \in (a + 1)..Len(output.members) :
                        output.members[b][1] # k
    IN output.members[n][2]

\* C19: a merge that succeeds keeps every key that was not emitted with its
\* value, adds or replaces exactly the emitted keys, stores a number as its
\* source text and a string as it is.
C19_MergeFrame ==
    [][(pc = "merge" /\ stdout'.kind = "object") =>
         (/\ DOMAIN custom' = (DOMAIN custom) \cup EmittedKeys(stdout')
          /\ \A k \in (DOMAIN custom) \ EmittedKeys(stdout') :
                 custom'[k] = custom[k]
          /\ \A k \in EmittedKeys(stdout') :
                 LastValue(stdout', k).type \in {"number", "string"} =>
                     custom'[k] = LastValue(stdout', k).text)]_vars

\* a seeded key was replaced by a number, another key was added, the seeded
\* key that was not emitted is still there
C19_Witness ==
    /\ pc = "merge"
    /\ stdout.kind = "object"
    /\ Len(stdout.members) = 2
    /\ DOMAIN custom = {"p50_ms", "owner", "notes"}
    /\ custom["p50_ms"] = "1e3"
    /\ custom["notes"] = "ok"
    /\ custom["owner"] = "seeded"

\* C20: the run id returned is the smallest positive integer whose directory
\* does not exist.
C20_SmallestFreeRunID ==
    runID # 0 =>
        /\ runID \notin existing
        /\ \A k \in 1..(runID - 1) : k \in existing

C20_Witness ==
    /\ runID > 2
    /\ \E k \in existing : k > runID

\* C21: run-id allocation is not atomic across invocations -- an invocation
\* whose run directory was created by another one in the meantime still
\* proceeds: on a writable output root no invocation fails at directory
\* creation, whatever the other one did.
C21_RunIDRace ==
    writable => \A p \in Invocations : invocation[p].pc # "fatal"

\* both invocations were allocated the same run id and both proceed with
\* the same run directory
C21_Witness ==
    /\ \A p \in Invocations : invocation[p].pc = "run"
    /\ invocation[1].runID = invocation[2].runID
    /\ invocation[1].runID > 1

\* C22: when the context is cancelled while a remote RunCommand waits for
\* its command, RunCommand returns, also when the remote process neither
\* exits nor closes its output streams on the interrupt.
C22_RemoteCancelReturns ==
    (req.remote /\ cancelled /\ rc = "running") ~> (rc = "returned")

\* C23: when the context is cancelled during a local RunCommand, no process
\* the command started is alive once RunCommand has returned.
C23_LocalCancelKillsGroup ==
    (~req.remote /\ cancelled /\ rc = "returned") => alive = {}

\* the sinks a request carries, as a set
Sinks(r) == {r.Stdout, r.Stderr} \ {"nil"}

\* the chunks of the command's output that are meant for sink w: those of
\* its stream, or all of them on a PTY, which has one combined stream
Routed(r, w) ==
    IF r.UsePTY THEN emitted.stdout + emitted.stderr
    ELSE (IF r.Stdout = w THEN emitted.stdout ELSE 0)
           + (IF r.Stderr = w THEN emitted.stderr ELSE 0)

\* C24: with DisableCapture, RunCommand returns an empty captured output and
\* the live sinks have received the command's output, for zero, one or two
\* sinks.
C24_DisableCaptureKeepsSinks ==
    req.DisableCapture =>
        /\ rc # "panic"
        /\ rc = "returned" =>
             /\ result.Output = 0
             /\ \A w \in Sinks(req) : received[w] = Routed(req, w)

\* the keys the prefix is to export: the built-in ones that are known and
\* the keys of the user's map
ExportedKeys ==
    {EnvRunID, EnvOutputDir, EnvRunDir}
      \cup (IF osEnv.configPath THEN {EnvConfigPath} ELSE {})
      \cup (IF osEnv.exePath THEN {EnvBenchctl} ELSE {})
      \cup DOMAIN envVars

\* C25: the environment prefix holds exactly one assignment for each exported
\* key, for every map parseEnvironment accepts.
C25_OneAssignmentPerKey ==
    pc = "built" =>
        \A key \in ExportedKeys :
            Cardinality({n \in 1..Len(exports) : SplitN(exports[n])[1] = key}) = 1

\* C26: CallWithRetry with max retries N calls the predicate at most N+1
\* times (exactly once when N = 0), never again after a call that returned
\* success or an error, and never again once the context is done.
C26_RetryBudget ==
    [][/\ attempts' > attempts =>
            /\ attempts' <= hc.Retries + 1
            /\ iter.last \in {"none", "unhealthy"}
            /\ attempts > 0 => ~hcCtx
       /\ (iter'.checked /\ hc.Type = "port" /\ hc.Retries = 0
             /\ ~ParseDuration(hc.Timeout).err) => attempts' = 1]_vars

\* the predicate failed on every one of the N+1 calls, N > 0
C26_Witness ==
    /\ pc = "stageReturned"
    /\ hc.Retries > 0
    /\ attempts = hc.Retries + 1
    /\ hcErr = "port is not listening"

\* C27: a health check of type http, file, process or command passes the
\* validator and makes its stage fail with 'unknown health check type',
\* after the stage command has run and before any output is collected.
C27_UnknownTypeFailsStage ==
    (hc.Type \in {"http", "file", "process", "command"} /\ iter.checked) =>
        /\ hcErr = "unknown health check type"
        /\ iter.commandRan
        /\ ~iter.collected

\* C28: ParseYAML rejects every configuration with a stage that sets both
\* background and append_metadata, so no background stage of an accepted
\* configuration has append_metadata set.
C28_BackgroundNeverAppends ==
    /\ pc = "accepted" =>
         \A n \in 1..Len(cfg.Stages) :
             cfg.Stages[n].Background => ~cfg.Stages[n].AppendMetadata
    /\ (pc \in {"accepted", "rejected"}
          /\ \E n \in 1..Len(cfg.Stages) :
               cfg.Stages[n].Background /\ cfg.Stages[n].AppendMetadata) =>
         /\ pc = "rejected"
         /\ "background=true cannot set append_metadata" \in errs

\* a configuration whose only fault is a background stage with
\* append_metadata has been rejected
C28_Witness ==
    /\ pc = "rejected"
    /\ errs = {"background=true cannot set append_metadata"}

\* C29: in every accepted configuration the source of a plot resolves to
\* exactly one stage output.
C29_PlotSourceUnique ==
    dataSource.source # <<>> =>
        Cardinality(Matches(fstages, dataSource.source)) = 1

\* C30: terminatePID sends TERM first, waits the grace period, sends KILL
\* only to a process found alive after the grace period (never to one found
\* dead), and then polls for its exit for at most one further grace period.
C30_TermGraceKill ==
    /\ sig.sent \in {<<>>, <<"TERM">>, <<"TERM", "KILL">>}
    /\ sig.found # "none" => sig.waited
    /\ (pc = "kill" \/ sig.sent = <<"TERM", "KILL">>) =>
         (sig.waited /\ sig.found = "alive")
    /\ sig.elapsed <= BackgroundTerminationGrace
    /\ sig.elapsed > 0 => sig.sent = <<"TERM", "KILL">>

\* KILL was sent to a process found alive after the grace period and the
\* polling gave up at the deadline
C30_Witness ==
    /\ pc = "bgCollect"
    /\ sig.sent = <<"TERM", "KILL">>
    /\ sig.found = "alive"
    /\ sig.warned
    /\ sig.elapsed = BackgroundTerminationGrace

\* a process found dead after the grace period is left alone
C30_WitnessDead ==
    /\ pc = "bgCollect"
    /\ sig.found = "dead"
    /\ sig.sent = <<"TERM">>

\* C31: during executeStages at most one execution client is open; the client
\* of a (stage, host) iteration is closed before the next iteration begins
\* and before executeStages returns, on every path.
C31_OneClientPerIteration ==
    /\ stageErr = "unset" => clients <= 1
    /\ pc \in {"stageLoop", "openClient"} => clients = 0
    /\ (stageErr # "unset" /\ sv.attempted = {} /\ pc = "stopAll") => clients = 0
    /\ pc \in {"prepare", "launch", "run", "running", "health", "collect",
               "close"} => clients = 1

\* the second host of a fan-out has its client open, the first iteration
\* having closed its own
C31_Witness ==
    /\ pc = "running"
    /\ hostIndex = 2
    /\ <<i, 1>> \in ev.completed
    /\ clients = 1

\* executeStages returned an error from an iteration that had a client open
C31_WitnessError ==
    /\ pc = "stopAll"
    /\ stageErr = "err"
    /\ firstError.kind \in {"command", "health", "collect", "launch", "prepare"}
    /\ sv.attempted = {}
    /\ clients = 0

\* C32: RunCommand returns its result only after all of its stream-copying
\* tasks (stdout and stderr; one combined on a PTY) have finished, on normal
\* command exit and on context cancellation.
C32_ResultAfterCopyTasks ==
    (rc = "returned" /\ result.err \notin {"empty command", "start"}) =>
        \A p \in CopyTasks(req) : pipes[p].task = "done"

\* a command that wrote output has exited and RunCommand has returned with
\* both copy tasks finished
C32_Witness ==
    /\ rc = "returned"
    /\ result.err = "nil"
    /\ CopyTasks(req) = Streams
    /\ emitted.stdout > 0
    /\ emitted.stderr > 0
    /\ \A p \in Streams : pipes[p].task = "done"

\* RunCommand has returned after the context was cancelled, its copy tasks
\* finished, on the local and on the remote client
C32_WitnessCancelledLocal ==
    /\ rc = "returned"
    /\ ~req.remote
    /\ cancelled
    /\ result.ExitCode = -1
    /\ CopyTasks(req) = Streams
    /\ \A p \in Streams : pipes[p].task = "done"

C32_WitnessCancelledRemote ==
    /\ rc = "returned"
    /\ req.remote
    /\ result.err = "context done"
    /\ CopyTasks(req) = {"stdout"}
    /\ pipes.stdout.task = "done"

\* C37: a local piped RunCommand with capture enabled returns a captured
\* output that holds every chunk the command wrote to stdout and stderr,
\* however cmd.Wait and the two copy tasks interleave.
C37_CaptureComplete ==
    (~req.remote /\ ~req.UsePTY /\ ~req.DisableCapture /\ rc = "returned"
       /\ result.err \in {"nil", "exit"}) =>
        result.Output = emitted.stdout + emitted.stderr

\* the host list the stage is to run on: hosts when it is non-empty, else the
\* host when one is set, else "local"
ExpectedHosts(st) ==
    IF st.Hosts # <<>> THEN st.Hosts
    ELSE IF TrimSpace(st.Host) # <<>> THEN <<st.Host>> ELSE <<Local>>

C33_WitnessLocal ==
    /\ pc = "returned"
    /\ stageErr = "nil"
    /\ Local \notin DOMAIN cfg.Hosts
    /\ cfg.Stage.Host = <<" ">>
    /\ trace = <<[alias |-> Local, host |-> EmptyHost, kind |-> "local"]>>

C34_WitnessFailed ==
    /\ firstError = [stage |-> 1, host |-> 2, kind |-> "launch"]
    /\ Len(backgroundMgr) = 1

\* C35: a POSIX shell that reads shellQuote(v) obtains exactly v as one
\* word, for values with single quotes, blanks and for the empty string: the
\* exported value and the wrapped command body arrive unchanged
C35_QuoteRoundTrip ==
    pc = "read" =>
        envVars = <<ExportWord, QuoteKey \o <<"=">> \o entries[1],
                    QuoteShell, entries[2]>>

C35_Witness ==
    /\ pc = "read"
    /\ \E n \in 1..Len(entries[1]) : entries[1][n] = "'"
    /\ \E n \in 1..Len(entries[1]) : entries[1][n] = " "
    /\ \E n \in 1..Len(entries[2]) : entries[2][n] = "'"
    /\ envVars[4] = entries[2]

C35_WitnessEmpty ==
    /\ pc = "read"
    /\ entries = <<<<>>, <<>>>>
    /\ envVars = <<ExportWord, QuoteKey \o <<"=">>, QuoteShell, <<>>>>

\* C39: a health check that the validator accepted never makes its stage
\* fail because its timeout cannot be parsed: runHealthCheck gets to the
\* switch on the type for every validated health check, one without a
\* timeout included
C39_TimeoutAlwaysParses ==
    hcErr # "error parsing health check timeout"

\* C40: the input path that generatePlotsForRun hands to a renderer was the
\* destination of a successful output copy earlier in the same run, also with
\* skipped stages and with a background stage whose collection failed
C40_PlotInputWasCopied ==
    pc = "rendering" => dataSource.path \in DOMAIN runDirFiles

\* C36: when the workflow context is already done as StopAll runs, the
\* termination signal still reaches the process group of every registered
\* background stage
C36_TermDeliveredAfterCancel ==
    [][(pc = "term" /\ pc' = "grace" /\ ctxDone /\ leader[ri]) =>
           sig'.term]_vars

\* C38: generateRunID terminates for every state of the output root with
\* finitely many entries, also when checking a candidate directory fails
\* with an error other than not-exist
C38_GenerateRunIDTerminates == <>(runID # 0)
====
